---- MODULE Spec2Model ----
(***************************************************************************)
(* A model of the usc-free-food extraction core (utils/htmlParser.js,      *)
(* utils/freeFoodKeywords.js, utils/engageClient.js, utils/eventScanner.js)*)
(*                                                                         *)
(* JavaScript strings are modelled as sequences of UTF-16 code units       *)
(* (naturals); S(<<"a","b">>) writes the string "ab".                      *)
(***************************************************************************)
EXTENDS Integers, Sequences, FiniteSets, TLC

VARIABLES
  txtPc,        \* text harness: "input" | "decoded" | "normalized" | "renormalized"
  txtIn,        \* the string handed to decodeHtmlEntities / processDescriptionText
  txtOut,       \* the string returned by the last call
  txtPrev,      \* the string returned by the call before the last one
  domPc,        \* scan of one detail page: "parsed" | "cleaned" | "extracted" | "described"
  attr,         \* the parsed nodes: node id -> nodeType, tag, classes, aria-label, rawText
  dom,          \* the tree links: parentNode and childNodes of every node
  parsed,       \* the tree links as parse() returned them, before any removal
  card,         \* the node handed to cleanEventDOM and extractNodeText
  rawText,      \* the result of extractNodeText(card)
  description,  \* the result of processDescriptionText(rawText)
  catPc,        \* category harness: "input" | "extracted"
  ariaLabels,   \* the aria-label values of root.querySelectorAll("[aria-label]"), in order
  category,     \* the result of extractAriaLabelsAsCategory
  clsPc,        \* one event of a batch: "listed" | "scanned" | "enriched"
  nodeEnv,      \* process.env.NODE_ENV
  evCategory,   \* event.category of the listed event
  pageText,     \* the description the event's detail page yields when it is scanned
  scanResult,   \* how scanEventDetails ended: "none" | "ok" | "noCard" | "error"
  details,      \* the record scanEventDetails resolved to
  matches,      \* getMatchedKeywords(description), computed in development
  enriched,     \* the record processEventBatch returns for the event
  callPc,       \* one call of an extractor: "idle" | "called" | "returned"
  callFn,       \* the extractor called
  callArg,      \* its argument, a JavaScript value
  callRet,      \* how the call ended: the value returned, or an exception raised
  rawTextAgain, \* the result of a second extractNodeText(card) on the same tree
  batPc,        \* scanEventsInBatches: "idle" | "loop" | "batch" | "delay" | "done"
  events,       \* its argument
  cursor,       \* the loop variable i
  fetches,      \* per event of the list: where its scan stands
  scannedEvents,\* the list being returned
  elapsed,      \* milliseconds since the inter-batch timer was set
  db,           \* the events table: per event id its row, or no row
  today,        \* the date, in days
  cronPc,       \* one invocation of the cron handler: where it stands
  authorization,\* req.headers.authorization
  runEvents,    \* handler's events: what fetchEngageEvents resolved to
  runScanned,   \* handler's scannedEvents
  responses,    \* the status codes sent on res, in order
  steps,        \* the steps the invocation has started, in order, each with its outcome
  dbAtStart,    \* the table as the invocation found it
  appPc,        \* the page: "idle" | "mounted" | "loading" | "ready"
  appEvents,    \* App state events
  showOnlyFreeFood, \* App state showOnlyFreeFood
  searchQuery,  \* App state searchQuery
  selectedEvent,\* App state selectedEvent
  eventDetails, \* App state eventDetails
  loadingDetails, \* App state loadingDetails
  pending       \* the detail requests awaiting their response, in the order sent

txtVars == <<txtPc, txtIn, txtOut, txtPrev>>

domVars == <<domPc, attr, dom, parsed, card, rawText, description>>

catVars == <<catPc, ariaLabels, category>>

clsVars ==
  <<clsPc, nodeEnv, evCategory, pageText, scanResult, details, matches, enriched>>

callVars == <<callPc, callFn, callArg, callRet>>

batVars == <<batPc, events, cursor, fetches, scannedEvents, elapsed>>

dbVars == <<db, today>>

cronVars ==
  <<cronPc, authorization, runEvents, runScanned, responses, steps, dbAtStart>>

appVars ==
  <<appPc, appEvents, showOnlyFreeFood, searchQuery, selectedEvent, eventDetails,
    loadingDetails, pending>>

vars ==
  <<txtPc, txtIn, txtOut, txtPrev, domPc, attr, dom, parsed, card, rawText, description,
    catPc, ariaLabels, category,
    clsPc, nodeEnv, evCategory, pageText, scanResult, details, matches, enriched,
    callPc, callFn, callArg, callRet, rawTextAgain,
    batPc, events, cursor, fetches, scannedEvents, elapsed,
    db, today, cronPc, authorization, runEvents, runScanned, responses, steps,
    dbAtStart,
    appPc, appEvents, showOnlyFreeFood, searchQuery, selectedEvent, eventDetails,
    loadingDetails, pending>>

(***************************************************************************)
(* Characters                                                              *)
(***************************************************************************)

\* Code units of the characters the model writes.
Ord ==
  [c \in {"a","b","c","d","e","f","g","h","i","j","k","l","m","n","o","p","q",
          "r","s","t","u","v","w","x","y","z"} |->
     CASE c = "a" -> 97  [] c = "b" -> 98  [] c = "c" -> 99  [] c = "d" -> 100
       [] c = "e" -> 101 [] c = "f" -> 102 [] c = "g" -> 103 [] c = "h" -> 104
       [] c = "i" -> 105 [] c = "j" -> 106 [] c = "k" -> 107 [] c = "l" -> 108
       [] c = "m" -> 109 [] c = "n" -> 110 [] c = "o" -> 111 [] c = "p" -> 112
       [] c = "q" -> 113 [] c = "r" -> 114 [] c = "s" -> 115 [] c = "t" -> 116
       [] c = "u" -> 117 [] c = "v" -> 118 [] c = "w" -> 119 [] c = "x" -> 120
       [] c = "y" -> 121 [] c = "z" -> 122]
  @@
  [c \in {"A","B","C","D","E","F","G","H","I","J","K","L","M","N","O","P","Q",
          "R","S","T","U","V","W","X","Y","Z"} |->
     CASE c = "A" -> 65 [] c = "B" -> 66 [] c = "C" -> 67 [] c = "D" -> 68
       [] c = "E" -> 69 [] c = "F" -> 70 [] c = "G" -> 71 [] c = "H" -> 72
       [] c = "I" -> 73 [] c = "J" -> 74 [] c = "K" -> 75 [] c = "L" -> 76
       [] c = "M" -> 77 [] c = "N" -> 78 [] c = "O" -> 79 [] c = "P" -> 80
       [] c = "Q" -> 81 [] c = "R" -> 82 [] c = "S" -> 83 [] c = "T" -> 84
       [] c = "U" -> 85 [] c = "V" -> 86 [] c = "W" -> 87 [] c = "X" -> 88
       [] c = "Y" -> 89 [] c = "Z" -> 90]
  @@
  [c \in {"0","1","2","3","4","5","6","7","8","9"} |->
     CASE c = "0" -> 48 [] c = "1" -> 49 [] c = "2" -> 50 [] c = "3" -> 51
       [] c = "4" -> 52 [] c = "5" -> 53 [] c = "6" -> 54 [] c = "7" -> 55
       [] c = "8" -> 56 [] c = "9" -> 57]
  @@
  [c \in {" ", "TAB", "LF", "NBSP", "&", ";", "#", "/", "'", "<", ">", "QUOT",
          ".", ",", "(", ")", "-", "_", "NDASH", "MDASH", "e'", "E'", ":"} |->
     CASE c = " " -> 32 [] c = "TAB" -> 9 [] c = "LF" -> 10 [] c = "NBSP" -> 160
       [] c = "&" -> 38 [] c = ";" -> 59 [] c = "#" -> 35 [] c = "/" -> 47
       [] c = "'" -> 39 [] c = "<" -> 60 [] c = ">" -> 62 [] c = "QUOT" -> 34
       [] c = "." -> 46 [] c = "," -> 44 [] c = "(" -> 40 [] c = ")" -> 41
       [] c = "-" -> 45 [] c = "_" -> 95 [] c = "NDASH" -> 8211
       [] c = "MDASH" -> 8212 [] c = "e'" -> 233 [] c = "E'" -> 201
       [] c = ":" -> 58]

\* The string whose characters are named by the tuple cs.
S(cs) == [i \in 1..Len(cs) |-> Ord[cs[i]]]

SP == Ord[" "]
TAB == Ord["TAB"]
LF == Ord["LF"]
NBSP == Ord["NBSP"]

IsDigit(c) == c \in 48..57
IsHexDigit(c) == c \in 48..57 \/ c \in 65..70 \/ c \in 97..102
DigitVal(c) == IF c \in 48..57 THEN c - 48
               ELSE IF c \in 65..70 THEN c - 55 ELSE c - 87

\* c.toLowerCase() for one code unit (Basic Latin and Latin-1 letters).
LowerChar(c) ==
  IF c \in 65..90 \/ c \in 192..214 \/ c \in 216..222 THEN c + 32 ELSE c

\* s.toLowerCase()
ToLowerCase(s) == [i \in 1..Len(s) |-> LowerChar(s[i])]

\* ECMAScript WhiteSpace and LineTerminator code units, as String.prototype.trim strips.
JsWhiteSpace ==
  {9, 10, 11, 12, 13, 32, 160, 5760, 8232, 8233, 8239, 8287, 12288, 65279}
    \cup (8192..8202)

(***************************************************************************)
(* String primitives                                                       *)
(***************************************************************************)

\* s.substring(i-1): the suffix of s from position i (1-based).
Drop(s, i) == IF i > Len(s) THEN <<>> ELSE SubSeq(s, i, Len(s))

\* Whether the literal pat occurs in s at position i.
MatchAt(s, pat, i) ==
  /\ i + Len(pat) - 1 <= Len(s)
  /\ \A k \in 1..Len(pat) : s[i + k - 1] = pat[k]

\* s.includes(pat)
Includes(s, pat) == \E i \in 1..(Len(s) - Len(pat) + 1) : MatchAt(s, pat, i)

\* s.replace(/pat/g, rep) for a literal, non-empty pat: one left-to-right scan,
\* matches do not overlap and the replacement text is not rescanned.
RECURSIVE ReplaceFrom(_, _, _, _)
ReplaceFrom(s, pat, rep, i) ==
  IF i > Len(s) THEN <<>>
  ELSE IF MatchAt(s, pat, i) THEN rep \o ReplaceFrom(s, pat, rep, i + Len(pat))
  ELSE <<s[i]>> \o ReplaceFrom(s, pat, rep, i + 1)

ReplaceAll(s, pat, rep) == ReplaceFrom(s, pat, rep, 1)

\* The length of the longest run of characters of set cls starting at position i.
RECURSIVE RunLen(_, _, _)
RunLen(s, cls, i) ==
  IF i > Len(s) \/ s[i] \notin cls THEN 0 ELSE 1 + RunLen(s, cls, i + 1)

\* s.trim()
TrimStart(s) == Drop(s, 1 + RunLen(s, JsWhiteSpace, 1))

RECURSIVE TrimEnd(_)
TrimEnd(s) ==
  IF Len(s) > 0 /\ s[Len(s)] \in JsWhiteSpace
  THEN TrimEnd(SubSeq(s, 1, Len(s) - 1)) ELSE s

Trim(s) == TrimEnd(TrimStart(s))

\* String.fromCharCode(n): ToUint16 of the number, one code unit.
FromCharCode(n) == <<n % 65536>>

\* The number a run of decimal (base 10) or hexadecimal (base 16) digits denotes.
RECURSIVE ParseDigits(_, _)
ParseDigits(ds, base) ==
  IF ds = <<>> THEN 0
  ELSE ParseDigits(SubSeq(ds, 1, Len(ds) - 1), base) * base + DigitVal(ds[Len(ds)])

(***************************************************************************)
(* Entity decoding: decodeHtmlEntities and the regular expressions of      *)
(* processDescriptionText                                                  *)
(***************************************************************************)

EntAmp == S(<<"&","a","m","p",";">>)
EntLt == S(<<"&","l","t",";">>)
EntGt == S(<<"&","g","t",";">>)
EntQuot == S(<<"&","q","u","o","t",";">>)
EntApos == S(<<"&","#","3","9",";">>)
EntNdash == S(<<"&","n","d","a","s","h",";">>)
\* The em dash entity looked for under the name of the en dash entity.
EntMdashAsNdash == EntNdash

EntMdash == S(<<"&","m","d","a","s","h",";">>)
EntNbsp == S(<<"&","n","b","s","p",";">>)

\* .replace(/&#(\d+);/g, (m, dec) => String.fromCharCode(dec))
RECURSIVE DecodeDecimalFrom(_, _)
DecodeDecimalFrom(s, i) ==
  IF i > Len(s) THEN <<>>
  ELSE LET n == RunLen(s, 48..57, i + 2)
           hit == /\ MatchAt(s, S(<<"&","#">>), i)
                  /\ n > 0
                  /\ i + 2 + n <= Len(s)
                  /\ s[i + 2 + n] = Ord[";"]
       IN IF hit
          THEN FromCharCode(ParseDigits(SubSeq(s, i + 2, i + 1 + n), 10))
                 \o DecodeDecimalFrom(s, i + 3 + n)
          ELSE <<s[i]>> \o DecodeDecimalFrom(s, i + 1)

DecodeDecimal(s) == DecodeDecimalFrom(s, 1)

\* .replace(/&#x([0-9a-f]+);/gi, (m, hex) => String.fromCharCode(parseInt(hex, 16)))
RECURSIVE DecodeHexFrom(_, _)
DecodeHexFrom(s, i) ==
  IF i > Len(s) THEN <<>>
  ELSE LET n == RunLen(s, {c \in 48..102 : IsHexDigit(c)}, i + 3)
           hit == /\ MatchAt(s, S(<<"&","#">>), i)
                  /\ i + 2 <= Len(s)
                  /\ s[i + 2] \in {Ord["x"], Ord["X"]}
                  /\ n > 0
                  /\ i + 3 + n <= Len(s)
                  /\ s[i + 3 + n] = Ord[";"]
       IN IF hit
          THEN FromCharCode(ParseDigits(SubSeq(s, i + 3, i + 2 + n), 16))
                 \o DecodeHexFrom(s, i + 4 + n)
          ELSE <<s[i]>> \o DecodeHexFrom(s, i + 1)

DecodeHex(s) == DecodeHexFrom(s, 1)

\* decodeHtmlEntities(str) for a string argument: ten chained global replaces.
decodeHtmlEntities(str) ==
  IF str = <<>> THEN <<>>
  ELSE
    LET s1 == ReplaceAll(str, EntAmp, S(<<"&">>))
        s2 == ReplaceAll(s1, EntLt, S(<<"<">>))
        s3 == ReplaceAll(s2, EntGt, S(<<">">>))
        s4 == ReplaceAll(s3, EntQuot, S(<<"QUOT">>))
        s5 == ReplaceAll(s4, EntApos, S(<<"'">>))
        s6 == ReplaceAll(s5, EntNdash, S(<<"NDASH">>))
        s7 == ReplaceAll(s6, EntMdash, S(<<"MDASH">>))
        s8 == ReplaceAll(s7, EntNbsp, S(<<" ">>))
        s9 == DecodeDecimal(s8)
    IN DecodeHex(s9)

\* .replace(/[ \t]+/g, " ")
RECURSIVE CollapseSpacesFrom(_, _)
CollapseSpacesFrom(s, i) ==
  IF i > Len(s) THEN <<>>
  ELSE LET n == RunLen(s, {SP, TAB}, i)
       IN IF n > 0 THEN <<SP>> \o CollapseSpacesFrom(s, i + n)
          ELSE <<s[i]>> \o CollapseSpacesFrom(s, i + 1)

CollapseSpaces(s) == CollapseSpacesFrom(s, 1)

\* .replace(/[ \t]*\n[ \t]*/g, "\n")
RECURSIVE TrimAroundNewlinesFrom(_, _)
TrimAroundNewlinesFrom(s, i) ==
  IF i > Len(s) THEN <<>>
  ELSE LET n == RunLen(s, {SP, TAB}, i)
           hit == i + n <= Len(s) /\ s[i + n] = LF
           m == RunLen(s, {SP, TAB}, i + n + 1)
       IN IF hit THEN <<LF>> \o TrimAroundNewlinesFrom(s, i + n + 1 + m)
          ELSE <<s[i]>> \o TrimAroundNewlinesFrom(s, i + 1)

TrimAroundNewlines(s) == TrimAroundNewlinesFrom(s, 1)

\* .replace(/\n{3,}/g, "\n\n")
RECURSIVE CollapseNewlinesFrom(_, _)
CollapseNewlinesFrom(s, i) ==
  IF i > Len(s) THEN <<>>
  ELSE LET n == RunLen(s, {LF}, i)
       IN IF n >= 3 THEN <<LF, LF>> \o CollapseNewlinesFrom(s, i + n)
          ELSE <<s[i]>> \o CollapseNewlinesFrom(s, i + 1)

\* The newline collapse left out.
CollapseNewlinesSkipped(s) == s

CollapseNewlines(s) == CollapseNewlinesFrom(s, 1)

\* The entity replaces of processDescriptionText, in its order.
DecodeDescriptionEntities(s) ==
  LET s1 == ReplaceAll(s, EntAmp, S(<<"&">>))
      s2 == ReplaceAll(s1, EntLt, S(<<"<">>))
      s3 == ReplaceAll(s2, EntGt, S(<<">">>))
      s4 == ReplaceAll(s3, EntQuot, S(<<"QUOT">>))
      s5 == ReplaceAll(s4, EntApos, S(<<"'">>))
      s6 == ReplaceAll(s5, EntNbsp, S(<<" ">>))
      s7 == ReplaceAll(s6, EntNdash, S(<<"NDASH">>))
      s8 == ReplaceAll(s7, EntMdash, S(<<"MDASH">>))
      s9 == DecodeDecimal(s8)
  IN DecodeHex(s9)

\* processDescriptionText(rawText) for a string argument.
processDescriptionText(raw) ==
  Trim(DecodeDescriptionEntities(
         CollapseNewlines(TrimAroundNewlines(CollapseSpaces(raw)))))

(***************************************************************************)
(* The parsed tree (node-html-parser): nodes are numbered in document      *)
(* order; dom.parent[n] = NoNode is a null parentNode                      *)
(***************************************************************************)

NoNode == 0

\* No scan result.
NoDetails == [description |-> <<>>, hasFreeFood |-> FALSE, isHousingOnly |-> FALSE]

\* No tree parsed.
EmptyDom == [parent |-> <<>>, kids |-> <<>>]

\* The JavaScript values undefined and null.
JsUndefined == [t |-> "undefined", v |-> <<>>]
JsNull == [t |-> "null", v |-> <<>>]

\* No extractor is being called.
NoCall ==
  /\ callPc = "idle"
  /\ callFn = "none"
  /\ callArg = JsUndefined
  /\ callRet = JsUndefined

\* No list of events is being scanned.
NoBatch ==
  /\ batPc = "idle"
  /\ events = <<>>
  /\ cursor = 0
  /\ fetches = <<>>
  /\ scannedEvents = <<>>
  /\ elapsed = 0

\* No table is attached.
NoDb ==
  /\ db = <<>>
  /\ today = 0

\* The cron handler is not invoked.
NoCron ==
  /\ cronPc = "idle"
  /\ authorization = JsUndefined
  /\ runEvents = <<>>
  /\ runScanned = <<>>
  /\ responses = <<>>
  /\ steps = <<>>
  /\ dbAtStart = <<>>

\* No page is open.
NoApp ==
  /\ appPc = "idle"
  /\ appEvents = <<>>
  /\ showOnlyFreeFood = FALSE
  /\ searchQuery = <<>>
  /\ selectedEvent = JsNull
  /\ eventDetails = JsNull
  /\ loadingDetails = FALSE
  /\ pending = <<>>

\* No cron run and no page.
NoService == NoDb /\ NoCron /\ NoApp

TEXT_NODE == 3
ELEMENT_NODE == 1

BLOCK_TAGS == {"div", "p", "br", "li", "tr", "h1", "h2", "h3", "h4", "h5", "h6"}

TextNode(txt) ==
  [nodeType |-> TEXT_NODE, tag |-> "", classes |-> {}, label |-> <<>>, rawText |-> txt]

Element(tg, cls, lbl) ==
  [nodeType |-> ELEMENT_NODE, tag |-> tg, classes |-> cls, label |-> lbl, rawText |-> <<>>]

\* The element and text nodes below n, in document order (n itself excluded).
RECURSIVE Descendants(_, _)
RECURSIVE DescendantsOfAll(_, _)
Descendants(d, n) == DescendantsOfAll(d, d.kids[n])
DescendantsOfAll(d, ns) ==
  IF ns = <<>> THEN <<>>
  ELSE <<Head(ns)>> \o Descendants(d, Head(ns)) \o DescendantsOfAll(d, Tail(ns))

SeqToSet(s) == { s[i] : i \in 1..Len(s) }

\* The nodes reachable from n through childNodes, n included.
Subtree(d, n) == {n} \cup SeqToSet(Descendants(d, n))

\* node.remove(): detach the node from its parent; nothing happens without a parent.
Remove(d, n) ==
  IF d.parent[n] = NoNode THEN d
  ELSE [parent |-> [d.parent EXCEPT ![n] = NoNode],
        kids |-> [d.kids EXCEPT ![d.parent[n]] = SelectSeq(@, LAMBDA c : c # n)]]

\* list.forEach((el) => el.remove())
RECURSIVE RemoveEach(_, _)
RemoveEach(d, els) ==
  IF els = <<>> THEN d ELSE RemoveEach(Remove(d, Head(els)), Tail(els))

\* list.forEach((el) => { const parent = el.parentNode; if (parent) parent.remove(); })
RECURSIVE RemoveParentOfEach(_, _)
RemoveParentOfEach(d, els) ==
  IF els = <<>> THEN d
  ELSE LET parent == d.parent[Head(els)]
       IN RemoveParentOfEach(IF parent # NoNode THEN Remove(d, parent) ELSE d,
                             Tail(els))

(***************************************************************************)
(* cleanEventDOM                                                           *)
(***************************************************************************)

CopyLinkText == S(<<"C","o","p","y"," ","l","i","n","k">>)

IsElement(a) == a.nodeType = ELEMENT_NODE

\* .card-block__title
IsTitle(a) == IsElement(a) /\ "card-block__title" \in a.classes
\* .card-border
IsBorder(a) == IsElement(a) /\ "card-border" \in a.classes
\* a[aria-label*="Copy link"]: the attribute value is compared case-sensitively
IsCopyLinkAnchor(a) == IsElement(a) /\ a.tag = "a" /\ Includes(a.label, CopyLinkText)
\* a.btn, button
IsButton(a) == IsElement(a) /\ ((a.tag = "a" /\ "btn" \in a.classes) \/ a.tag = "button")
\* img, .text-center
IsImageWrapper(a) == IsElement(a) /\ (a.tag = "img" \/ "text-center" \in a.classes)

\* Whether a node with attributes a matches a selector used by cleanEventDOM.
Matches(selector, a) ==
  CASE selector = ".card-block__title" -> IsTitle(a)
    [] selector = ".card-border" -> IsBorder(a)
    [] selector = "a[aria-label*=\"Copy link\"]" -> IsCopyLinkAnchor(a)
    [] selector = "a.btn, button" -> IsButton(a)
    [] selector = "img, .text-center" -> IsImageWrapper(a)

\* n.querySelectorAll(selector): the matching descendants of n in document order
QuerySelectorAll(at, d, n, selector) ==
  SelectSeq(Descendants(d, n), LAMBDA m : Matches(selector, at[m]))

\* const x = card.querySelector(selector); if (x) x.remove();
RemoveFirst(at, d, n, selector) ==
  LET found == QuerySelectorAll(at, d, n, selector)
  IN IF found = <<>> THEN d ELSE Remove(d, Head(found))

RemoveTitle(at, d, c) == RemoveFirst(at, d, c, ".card-block__title")
RemoveBorder(at, d, c) == RemoveFirst(at, d, c, ".card-border")
RemoveCopyLinks(at, d, c) ==
  RemoveParentOfEach(d, QuerySelectorAll(at, d, c, "a[aria-label*=\"Copy link\"]"))
RemoveButtons(at, d, c) == RemoveEach(d, QuerySelectorAll(at, d, c, "a.btn, button"))
\* The image wrappers left in place.
RemoveImagesSkipped(at, d, c) == d

RemoveImages(at, d, c) == RemoveEach(d, QuerySelectorAll(at, d, c, "img, .text-center"))

\* One removal step of cleanEventDOM, by its position in the function.
CleanStep(k, at, d, c) ==
  CASE k = 1 -> RemoveTitle(at, d, c)
    [] k = 2 -> RemoveBorder(at, d, c)
    [] k = 3 -> RemoveCopyLinks(at, d, c)
    [] k = 4 -> RemoveButtons(at, d, c)
    [] k = 5 -> RemoveImages(at, d, c)

\* The steps applied in the given order.
RECURSIVE CleanInOrder(_, _, _, _)
CleanInOrder(order, at, d, c) ==
  IF order = <<>> THEN d
  ELSE CleanInOrder(Tail(order), at, CleanStep(Head(order), at, d, c), c)

\* cleanEventDOM without its "if (border) border.remove()".
cleanEventDOMBorderKept(at, d, c) ==
  LET titles == QuerySelectorAll(at, d, c, ".card-block__title")
      d1 == IF titles = <<>> THEN d ELSE Remove(d, Head(titles))
  IN RemoveImages(at, RemoveButtons(at, RemoveCopyLinks(at, d1, c), c), c)

\* cleanEventDOM(card): both querySelector calls come first, then the removals.
cleanEventDOM(at, d, c) ==
  LET titles == QuerySelectorAll(at, d, c, ".card-block__title")
      borders == QuerySelectorAll(at, d, c, ".card-border")
      d1 == IF titles = <<>> THEN d ELSE Remove(d, Head(titles))
      d2 == IF borders = <<>> THEN d1 ELSE Remove(d1, Head(borders))
  IN RemoveImages(at, RemoveButtons(at, RemoveCopyLinks(at, d2, c), c), c)

(***************************************************************************)
(* extractNodeText                                                         *)
(***************************************************************************)

RECURSIVE Join(_, _)
Join(parts, sep) ==
  IF parts = <<>> THEN <<>>
  ELSE IF Len(parts) = 1 THEN parts[1]
  ELSE parts[1] \o sep \o Join(Tail(parts), sep)

RECURSIVE extractNodeText(_, _, _)
extractNodeText(at, d, n) ==
  IF at[n].nodeType = TEXT_NODE
  THEN Trim(CollapseSpaces(ReplaceAll(at[n].rawText, <<NBSP>>, <<SP>>)))
  ELSE IF at[n].tag = "br" THEN <<LF>>
  ELSE LET isBlock == at[n].tag \in BLOCK_TAGS
           texts == [i \in 1..Len(d.kids[n]) |-> extractNodeText(at, d, d.kids[n][i])]
           parts == SelectSeq(texts, LAMBDA s : Len(s) > 0)
           sep == IF isBlock THEN <<LF, LF>> ELSE <<SP>>
       IN Trim(Join(parts, sep))

\* The tree with the first child of n detached.
TreeWithFirstChildDetached(at, d, n) ==
  IF d.kids[n] = <<>> THEN d ELSE Remove(d, d.kids[n][1])

\* The tree after extractNodeText(n): the walk reads childNodes, nodeType, text and
\* tagName and assigns to none of them.
TreeAfterWalk(at, d, n) == d

(***************************************************************************)
(* extractAriaLabelsAsCategory                                             *)
(***************************************************************************)

SlashWord == S(<<"s","l","a","s","h">>)
SlashSep == S(<<" ","/"," ">>)

\* .replace(/\s+slash\s+/gi, " / ")
RECURSIVE ReplaceSlashWordFrom(_, _)
ReplaceSlashWordFrom(s, i) ==
  IF i > Len(s) THEN <<>>
  ELSE LET n == RunLen(s, JsWhiteSpace, i)
           m == RunLen(s, JsWhiteSpace, i + n + Len(SlashWord))
           hit == /\ n > 0
                  /\ i + n + Len(SlashWord) - 1 <= Len(s)
                  /\ ToLowerCase(SubSeq(s, i + n, i + n + Len(SlashWord) - 1)) = SlashWord
                  /\ m > 0
       IN IF hit THEN SlashSep \o ReplaceSlashWordFrom(s, i + n + Len(SlashWord) + m)
          ELSE <<s[i]>> \o ReplaceSlashWordFrom(s, i + 1)

\* .replace(/\s*\/\s*/g, " / ")
RECURSIVE SpaceSlashesFrom(_, _)
SpaceSlashesFrom(s, i) ==
  IF i > Len(s) THEN <<>>
  ELSE LET n == RunLen(s, JsWhiteSpace, i)
           hit == i + n <= Len(s) /\ s[i + n] = Ord["/"]
           m == RunLen(s, JsWhiteSpace, i + n + 1)
       IN IF hit THEN SlashSep \o SpaceSlashesFrom(s, i + n + 1 + m)
          ELSE <<s[i]>> \o SpaceSlashesFrom(s, i + 1)

\* .replace(/\s+/g, " ")
RECURSIVE CollapseWhitespaceFrom(_, _)
CollapseWhitespaceFrom(s, i) ==
  IF i > Len(s) THEN <<>>
  ELSE LET n == RunLen(s, JsWhiteSpace, i)
       IN IF n > 0 THEN <<SP>> \o CollapseWhitespaceFrom(s, i + n)
          ELSE <<s[i]>> \o CollapseWhitespaceFrom(s, i + 1)

cleanLabel(label) ==
  Trim(CollapseWhitespaceFrom(SpaceSlashesFrom(ReplaceSlashWordFrom(label, 1), 1), 1))

\* The key under which a label is remembered as seen, compared case-sensitively.
SeenKeyExact(l) == l

\* const key = l.toLowerCase()
SeenKey(l) == ToLowerCase(l)

\* The loop "for (const l of labels)": unique and seen after the labels from i on.
RECURSIVE DedupFrom(_, _, _, _)
DedupFrom(labels, i, unique, seen) ==
  IF i > Len(labels) THEN unique
  ELSE LET key == SeenKey(labels[i])
       IN IF key \notin seen
          THEN DedupFrom(labels, i + 1, Append(unique, labels[i]), seen \cup {key})
          ELSE DedupFrom(labels, i + 1, unique, seen)

\* extractAriaLabelsAsCategory(html) for a non-empty string html whose [aria-label]
\* elements carry the attribute values attrs, in document order.
extractAriaLabelsAsCategory(attrs) ==
  LET trimmed == [i \in 1..Len(attrs) |-> Trim(attrs[i])]
      kept == SelectSeq(trimmed, LAMBDA l : Len(l) > 0)
      labels == [i \in 1..Len(kept) |-> cleanLabel(kept[i])]
  IN Join(DedupFrom(labels, 1, <<>>, {}), SlashSep)

(***************************************************************************)
(* Classifier: freeFoodKeywords, checkFreeFood, getMatchedKeywords,        *)
(* isHousingOnlyEvent, isHousingCategory                                   *)
(***************************************************************************)

freeFoodKeywords ==
  <<
    S(<<"f","r","e","e"," ","f","o","o","d">>),
    S(<<"f","r","e","e"," ","p","i","z","z","a">>),
    S(<<"f","r","e","e"," ","l","u","n","c","h">>),
    S(<<"f","r","e","e"," ","d","i","n","n","e","r">>),
    S(<<"f","r","e","e"," ","b","r","e","a","k","f","a","s","t">>),
    S(<<"f","r","e","e"," ","s","n","a","c","k","s">>),
    S(<<"f","r","e","e"," ","r","e","f","r","e","s","h","m","e","n","t","s">>),
    S(<<"f","r","e","e"," ","d","r","i","n","k","s">>),
    S(<<"f","r","e","e"," ","b","e","v","e","r","a","g","e","s">>),
    S(<<"f","r","e","e"," ","c","o","f","f","e","e">>),
    S(<<"f","r","e","e"," ","t","e","a">>),
    S(<<"f","r","e","e"," ","b","o","b","a">>),
    S(<<"f","r","e","e"," ","b","u","b","b","l","e"," ","t","e","a">>),
    S(<<"f","r","e","e"," ","c","o","o","k","i","e","s">>),
    S(<<"f","r","e","e"," ","d","e","s","s","e","r","t">>),
    S(<<"f","r","e","e"," ","i","c","e"," ","c","r","e","a","m">>),
    S(<<"f","r","e","e"," ","g","e","l","a","t","o">>),
    S(<<"f","r","e","e"," ","p","a","s","t","r","i","e","s">>),
    S(<<"f","r","e","e"," ","d","o","n","u","t","s">>),
    S(<<"f","r","e","e"," ","b","a","g","e","l","s">>),
    S(<<"f","r","e","e"," ","c","u","p","c","a","k","e","s">>),
    S(<<"f","r","e","e"," ","b","r","o","w","n","i","e","s">>),
    S(<<"f","r","e","e"," ","s","a","n","d","w","i","c","h","e","s">>),
    S(<<"f","r","e","e"," ","s","u","b","s">>),
    S(<<"f","r","e","e"," ","b","u","r","r","i","t","o","s">>),
    S(<<"f","r","e","e"," ","t","a","c","o","s">>),
    S(<<"f","r","e","e"," ","w","i","n","g","s">>),
    S(<<"f","r","e","e"," ","b","b","q">>),
    S(<<"f","r","e","e"," ","r","a","m","e","n">>),
    S(<<"f","r","e","e"," ","s","u","s","h","i">>),
    S(<<"f","o","o","d"," ","p","r","o","v","i","d","e","d">>),
    S(<<"s","n","a","c","k","s"," ","p","r","o","v","i","d","e","d">>),
    S(<<"d","r","i","n","k","s"," ","p","r","o","v","i","d","e","d">>),
    S(<<"r","e","f","r","e","s","h","m","e","n","t","s"," ","p","r","o","v","i","d","e",
      "d">>),
    S(<<"m","e","a","l"," ","p","r","o","v","i","d","e","d">>),
    S(<<"l","u","n","c","h"," ","p","r","o","v","i","d","e","d">>),
    S(<<"d","i","n","n","e","r"," ","p","r","o","v","i","d","e","d">>),
    S(<<"b","r","e","a","k","f","a","s","t"," ","p","r","o","v","i","d","e","d">>),
    S(<<"p","i","z","z","a"," ","p","r","o","v","i","d","e","d">>),
    S(<<"f","o","o","d"," ","w","i","l","l"," ","b","e"," ","s","e","r","v","e","d">>),
    S(<<"r","e","f","r","e","s","h","m","e","n","t","s"," ","w","i","l","l"," ","b","e",
      " ","s","e","r","v","e","d">>),
    S(<<"s","n","a","c","k","s"," ","w","i","l","l"," ","b","e"," ","s","e","r","v","e",
      "d">>),
    S(<<"d","r","i","n","k","s"," ","w","i","l","l"," ","b","e"," ","s","e","r","v","e",
      "d">>),
    S(<<"c","o","m","p","l","i","m","e","n","t","a","r","y"," ","f","o","o","d">>),
    S(<<"c","o","m","p","l","i","m","e","n","t","a","r","y"," ","m","e","a","l">>),
    S(<<"c","o","m","p","l","i","m","e","n","t","a","r","y"," ","r","e","f","r","e","s",
      "h","m","e","n","t","s">>),
    S(<<"c","o","m","p","l","i","m","e","n","t","a","r","y"," ","s","n","a","c","k",
      "s">>),
    S(<<"c","a","t","e","r","i","n","g"," ","p","r","o","v","i","d","e","d">>),
    S(<<"c","a","t","e","r","e","d"," ","e","v","e","n","t">>),
    S(<<"l","i","g","h","t"," ","r","e","f","r","e","s","h","m","e","n","t","s">>),
    S(<<"a","p","p","e","t","i","z","e","r","s"," ","p","r","o","v","i","d","e","d">>),
    S(<<"h","o","r","s"," ","d","'","o","e","u","v","r","e","s">>),
    S(<<"t","r","e","a","t","s">>),
    S(<<"b","i","t","e","s">>),
    S(<<"m","u","n","c","h","i","e","s">>),
    S(<<"f","o","o","d">>),
    S(<<"s","n","a","c","k","s">>),
    S(<<"d","r","i","n","k","s">>)
  >>

\* lowerText.includes(keyword), on the text as given.
KeywordHitExact(text, keyword) == Includes(text, keyword)

\* lowerText.includes(keyword) with lowerText = text.toLowerCase()
KeywordHit(text, keyword) == Includes(ToLowerCase(text), keyword)

\* freeFoodKeywords.some((keyword) => lowerText.includes(keyword))
checkFreeFood(text) ==
  \E k \in 1..Len(freeFoodKeywords) : KeywordHit(text, freeFoodKeywords[k])

\* freeFoodKeywords.filter((keyword) => lowerText.includes(keyword))
RECURSIVE FilterKeywordsFrom(_, _)
FilterKeywordsFrom(lowerText, k) ==
  IF k > Len(freeFoodKeywords) THEN <<>>
  ELSE (IF Includes(lowerText, freeFoodKeywords[k]) THEN <<freeFoodKeywords[k]>> ELSE <<>>)
         \o FilterKeywordsFrom(lowerText, k + 1)

getMatchedKeywords(text) == FilterKeywordsFrom(ToLowerCase(text), 1)

MarkerSentence ==
  S(<<"T","h","i","s"," ","e","v","e","n","t"," ","i","s"," ","o","p","e","n"," ","t",
    "o"," ","U","S","C"," ","H","o","u","s","i","n","g"," ","R","e","s","i","d","e","n",
    "t","s"," ","o","n","l","y","."," ","R","e","s","i","d","e","n","t","i","a","l"," ",
    "E","d","u","c","a","t","i","o","n"," ","o","p","e","r","a","t","e","s"," ","i","t",
    "s"," ","p","r","o","g","r","a","m","s"," ","i","n"," ","a","c","c","o","r","d","a",
    "n","c","e"," ","w","i","t","h"," ","U","S","C","'","s"," ","N","o","t","i","c","e",
    " ","o","f"," ","N","o","n","-","D","i","s","c","r","i","m","i","n","a","t","i","o",
    "n",".">>)
MarkerRA == S(<<"R","A">>)

HOUSING_ONLY_MARKERS ==
  << MarkerSentence,
     S(<<"u","s","c"," ","h","o","u","s","i","n","g"," ","r","e","s","i","d","e","n","t","s">>),
     S(<<"h","o","u","s","i","n","g"," ","r","e","s","i","d","e","n","t","s"," ","o","n","l","y">>),
     MarkerRA >>

HOUSING_CATEGORIES ==
  << S(<<"R","A"," ","F","l","o","o","r"," ","P","r","o","g","r","a","m">>),
     S(<<"R","e","s"," ","C","o","l","l","e","g","e"," ","C","u","p">>),
     S(<<"R","e","s","i","d","e","n","t","i","a","l"," ","C","o","l","l","e","g","e",
       " ","o","r"," ","C","o","m","m","u","n","i","t","y"," ","E","v","e","n","t">>) >>

\* \w of a regular expression without the u flag
IsWordChar(c) == c \in 48..57 \/ c \in 65..90 \/ c = 95 \/ c \in 97..122

\* \b before position i of s (i = Len(s) + 1: at the end)
WordBoundary(s, i) ==
  (i > 1 /\ IsWordChar(s[i - 1])) # (i <= Len(s) /\ IsWordChar(s[i]))

\* RA_WORD_REGEX = /\bras?\b/i matches at position i
RaWordAt(s, i) ==
  /\ WordBoundary(s, i)
  /\ i + 1 <= Len(s)
  /\ LowerChar(s[i]) = Ord["r"]
  /\ LowerChar(s[i + 1]) = Ord["a"]
  /\ \/ i + 2 <= Len(s) /\ LowerChar(s[i + 2]) = Ord["s"] /\ WordBoundary(s, i + 3)
     \/ WordBoundary(s, i + 2)

\* RA_WORD_REGEX.test(description)
RaWordTest(s) == \E i \in 1..Len(s) : RaWordAt(s, i)

isHousingOnlyEvent(desc) ==
  LET normalizedDescription == ToLowerCase(desc)
  IN \E k \in 1..Len(HOUSING_ONLY_MARKERS) :
       IF HOUSING_ONLY_MARKERS[k] = MarkerRA
       THEN RaWordTest(desc)
       ELSE Includes(normalizedDescription, ToLowerCase(HOUSING_ONLY_MARKERS[k]))

isHousingCategory(cat) ==
  IF cat = <<>> THEN FALSE
  ELSE \E k \in 1..Len(HOUSING_CATEGORIES) : Includes(cat, HOUSING_CATEGORIES[k])

NoDescriptionAvailable == S(<<"N","o"," ","d","e","s","c","r","i","p","t","i","o","n"," ","a","v","a","i","l","a","b","l","e">>)
\* No placeholder text for a failed scan.
ErrorDescriptionMissing == <<>>

ErrorLoadingDescription == S(<<"E","r","r","o","r"," ","l","o","a","d","i","n","g"," ","d","e","s","c","r","i","p","t","i","o","n">>)

\* What scanEventDetails(event.id) resolves to for each way the scan can end.
ScanOutcome(result, descr) ==
  CASE result = "ok" ->
         [description |-> descr,
          hasFreeFood |-> checkFreeFood(descr),
          isHousingOnly |-> isHousingOnlyEvent(descr)]
    [] result = "noCard" ->
         [description |-> NoDescriptionAvailable,
          hasFreeFood |-> FALSE, isHousingOnly |-> FALSE]
    [] result = "error" ->
         [description |-> ErrorLoadingDescription,
          hasFreeFood |-> FALSE, isHousingOnly |-> FALSE]

(***************************************************************************)
(* Text harness: decodeHtmlEntities and processDescriptionText applied to  *)
(* strings built from a palette of fragments                               *)
(***************************************************************************)

MaxTokens == 3

\* Fragments of input text: plain characters, whitespace, complete entities and
\* the pieces ("amp;", "lt;", a bare "&") that complete one after a decoding step.
TextTokens ==
  { S(<<"a">>), S(<<" ">>), S(<<"LF">>), S(<<"&">>),
    S(<<"a","m","p",";">>), S(<<"l","t",";">>),
    EntAmp, EntLt, EntNbsp, S(<<"&","#","3","8",";">>) }

RECURSIVE Concat(_)
Concat(ts) == IF ts = <<>> THEN <<>> ELSE Head(ts) \o Concat(Tail(ts))

TextInputs ==
  { Concat(ts) : ts \in UNION { [1..n -> TextTokens] : n \in 0..MaxTokens } }

TextInit ==
  /\ txtPc = "input"
  /\ txtIn \in TextInputs
  /\ txtOut = <<>>
  /\ txtPrev = <<>>
  /\ domPc = "idle"
  /\ attr = <<>>
  /\ dom = EmptyDom
  /\ parsed = EmptyDom
  /\ card = NoNode
  /\ rawText = <<>>
  /\ rawTextAgain = <<>>
  /\ description = <<>>
  /\ catPc = "idle"
  /\ ariaLabels = <<>>
  /\ category = <<>>
  /\ clsPc = "idle"
  /\ nodeEnv = "production"
  /\ evCategory = <<>>
  /\ pageText = <<>>
  /\ scanResult = "none"
  /\ details = NoDetails
  /\ matches = <<>>
  /\ enriched = NoDetails
  /\ NoCall
  /\ NoBatch
  /\ NoService

\* decodeHtmlEntities(txtIn)
DecodeEntities ==
  /\ txtPc = "input"
  /\ txtOut' = decodeHtmlEntities(txtIn)
  /\ txtPc' = "decoded"
  /\ UNCHANGED <<txtIn, txtPrev>>
  /\ UNCHANGED <<domVars, catVars, clsVars, callVars, rawTextAgain, batVars,
               dbVars, cronVars, appVars>>

\* description = processDescriptionText(txtIn)
Normalize ==
  /\ txtPc = "input"
  /\ txtOut' = processDescriptionText(txtIn)
  /\ txtPc' = "normalized"
  /\ UNCHANGED <<txtIn, txtPrev>>
  /\ UNCHANGED <<domVars, catVars, clsVars, callVars, rawTextAgain, batVars,
               dbVars, cronVars, appVars>>

\* processDescriptionText applied to its own result
Renormalize ==
  /\ txtPc = "normalized"
  /\ txtPrev' = txtOut
  /\ txtOut' = processDescriptionText(txtOut)
  /\ txtPc' = "renormalized"
  /\ UNCHANGED txtIn
  /\ UNCHANGED <<domVars, catVars, clsVars, callVars, rawTextAgain, batVars,
               dbVars, cronVars, appVars>>

TextNext == DecodeEntities \/ Normalize \/ Renormalize

(***************************************************************************)
(* Reference harness: decodeHtmlEntities and processDescriptionText on     *)
(* numeric references, well formed and malformed                           *)
(***************************************************************************)

\* No detail page is being scanned, no category extracted and no event classified.
NoScan ==
  /\ domPc = "idle"
  /\ attr = <<>>
  /\ dom = EmptyDom
  /\ parsed = EmptyDom
  /\ card = NoNode
  /\ rawText = <<>>
  /\ rawTextAgain = <<>>
  /\ description = <<>>
  /\ catPc = "idle"
  /\ ariaLabels = <<>>
  /\ category = <<>>
  /\ clsPc = "idle"
  /\ nodeEnv = "production"
  /\ evCategory = <<>>
  /\ pageText = <<>>
  /\ scanResult = "none"
  /\ details = NoDetails
  /\ matches = <<>>
  /\ enriched = NoDetails

\* Only text functions are being applied.
OnlyText == NoScan /\ NoCall /\ NoBatch /\ NoService

\* Well-formed references (decimal, hexadecimal with x or X and digits of either case,
\* below and above 65535), the pieces of malformed ones, and plain text.
ReferenceTokens ==
  { S(<<"&","#","6","5",";">>), S(<<"&","#","x","4","1",";">>), S(<<"&","#","X","4","a",";">>),
    S(<<"&","#","1","2","8","5","1","2",";">>), S(<<"&","#","x","1","F","6","0","0",";">>),
    S(<<"&","#","5","2",";">>), S(<<"1",";">>), S(<<"&","#","x">>),
    S(<<"&">>), S(<<"&","a","m","p">>), S(<<"&","#",";">>),
    S(<<"&","#","x","Z","Z",";">>), S(<<"&","b","o","g","u","s",";">>), S(<<"a">>) }

ReferenceInputs ==
  { Concat(ts) : ts \in UNION { [1..n -> ReferenceTokens] : n \in 0..MaxTokens } }

ReferenceInit ==
  /\ txtPc = "input"
  /\ txtIn \in ReferenceInputs
  /\ txtOut = <<>>
  /\ txtPrev = <<>>
  /\ OnlyText

SpecReference == ReferenceInit /\ [][TextNext]_vars

(***************************************************************************)
(* Whitespace harness: processDescriptionText on texts holding whitespace  *)
(* and entities that decode to whitespace                                  *)
(***************************************************************************)

MaxSpaceTokens == 4

\* A plain character, literal whitespace, and the entities for a non-breaking space,
\* a space and a line feed.
SpaceTokens ==
  { S(<<"a">>), <<SP>>, <<LF>>, EntNbsp,
    S(<<"&","#","3","2",";">>), S(<<"&","#","1","0",";">>) }

SpaceInputs ==
  { Concat(ts) : ts \in UNION { [1..n -> SpaceTokens] : n \in 0..MaxSpaceTokens } }

SpaceInit ==
  /\ txtPc = "input"
  /\ txtIn \in SpaceInputs
  /\ txtOut = <<>>
  /\ txtPrev = <<>>
  /\ OnlyText

SpecSpace == SpaceInit /\ [][TextNext]_vars

(***************************************************************************)
(* Named-entity harness: decodeHtmlEntities and processDescriptionText on  *)
(* texts made of the eight named entities and plain characters             *)
(***************************************************************************)

\* The eight named entities concatenated in the order of the replaces.
AllEightEntities ==
  S(<<"&","a","m","p",";","&","l","t",";","&","g","t",";","&","q","u","o","t",";","&",
    "#","3","9",";","&","n","d","a","s","h",";","&","m","d","a","s","h",";","&","n","b",
    "s","p",";">>)

NamedTokens ==
  { EntAmp, EntLt, EntGt, EntQuot, EntApos, EntNdash, EntMdash, EntNbsp,
    AllEightEntities, S(<<"a">>), S(<<"&">>), S(<<";">>) }

NamedInputs ==
  { Concat(ts) : ts \in UNION { [1..n -> NamedTokens] : n \in 0..MaxTokens } }

NamedInit ==
  /\ txtPc = "input"
  /\ txtIn \in NamedInputs
  /\ txtOut = <<>>
  /\ txtPrev = <<>>
  /\ OnlyText

SpecNamed == NamedInit /\ [][TextNext]_vars

(***************************************************************************)
(* The extractors called with any JavaScript value: decodeHtmlEntities,    *)
(* extractAriaLabelsAsCategory, processDescriptionText,                    *)
(* parseDateInfoFromHtml and parseEngageSingleDate                         *)
(***************************************************************************)

JsString(s) == [t |-> "string", v |-> s]
JsNumber(n) == [t |-> "number", v |-> <<n>>]

\* !x is false
ToBoolean(x) ==
  CASE x.t = "string" -> x.v # <<>>
    [] x.t = "number" -> x.v[1] # 0
    [] OTHER -> FALSE

\* How a call ends: with a value, or with a TypeError thrown.
Returned(value) == [raised |-> FALSE, value |-> value]
Raised == [raised |-> TRUE, value |-> <<>>]

\* decodeHtmlEntities without its first line.
decodeHtmlEntitiesUnguarded(str) ==
  IF str.t = "string" THEN Returned(decodeHtmlEntities(str.v)) ELSE Raised

\* if (!str || typeof str !== "string") return "";
decodeHtmlEntitiesOf(str) ==
  IF ~ToBoolean(str) \/ str.t # "string" THEN Returned(<<>>)
  ELSE Returned(decodeHtmlEntities(str.v))

\* root.querySelectorAll("[aria-label]") on text that holds no element
AriaLabelValues(html) == <<>>

\* if (!html || typeof html !== "string") return "";
extractAriaLabelsAsCategoryOf(html) ==
  IF ~ToBoolean(html) \/ html.t # "string" THEN Returned(<<>>)
  ELSE Returned(extractAriaLabelsAsCategory(AriaLabelValues(html.v)))

\* rawText.replace(...): undefined and null have no properties, and a number has no
\* replace method; either way a TypeError is thrown.
processDescriptionTextOf(rawTextArg) ==
  IF rawTextArg.t = "string" THEN Returned(processDescriptionText(rawTextArg.v))
  ELSE Raised

POpen == S(<<"<","p",">">>)
PClose == S(<<"<","/","p",">">>)

\* The first position from i on where pat stands in s, or Len(s) + 1.
RECURSIVE FindFrom(_, _, _)
FindFrom(s, pat, i) ==
  IF i > Len(s) \/ MatchAt(s, pat, i) THEN (IF i > Len(s) THEN Len(s) + 1 ELSE i)
  ELSE FindFrom(s, pat, i + 1)

\* root.querySelectorAll("p").map((p) => p.text) for a sequence of closed paragraphs
RECURSIVE ParagraphTextsFrom(_, _)
ParagraphTextsFrom(s, i) ==
  IF i > Len(s) THEN <<>>
  ELSE IF MatchAt(s, POpen, i)
  THEN LET j == FindFrom(s, PClose, i + Len(POpen))
       IN <<SubSeq(s, i + Len(POpen), j - 1)>> \o ParagraphTextsFrom(s, j + Len(PClose))
  ELSE ParagraphTextsFrom(s, i + 1)

\* root.text: the text of the document without its tags
RootText(s) == ReplaceAll(ReplaceAll(s, POpen, <<>>), PClose, <<>>)

\* .replace(/\s*[–-]\s*$/, "")
StripTrailingDash(s) ==
  LET u == TrimEnd(s)
  IN IF u # <<>> /\ u[Len(u)] \in {Ord["NDASH"], Ord["-"]}
     THEN TrimEnd(SubSeq(u, 1, Len(u) - 1))
     ELSE s

parseDateInfoFromHtml(html) ==
  IF ~ToBoolean(html) \/ html.t # "string" THEN <<>>
  ELSE
    LET decoded == decodeHtmlEntities(html.v)
        paragraphs == ParagraphTextsFrom(decoded, 1)
        trimmed == [k \in 1..Len(paragraphs) |-> Trim(paragraphs[k])]
        text == IF Len(paragraphs) > 0
                THEN Trim(CollapseWhitespaceFrom(
                            Join(SelectSeq(trimmed, LAMBDA x : x # <<>>), <<SP>>), 1))
                ELSE Trim(CollapseWhitespaceFrom(RootText(decoded), 1))
    IN Trim(StripTrailingDash(text))

\* The values of d in parseEngageSingleDate: null, a Date that is not a valid instant,
\* or a Date at one of two instants.
NullDate == 0
InvalidDate == -1
Instants == {1, 2}

HasDigit(s) == \E i \in 1..Len(s) : IsDigit(s[i])

\* new Date(cleaned): for text that is not in the ISO format the result is left to the
\* host; text without any digit gives an invalid Date.
NewDate(cleaned) ==
  IF HasDigit(cleaned) THEN {InvalidDate} \cup Instants ELSE {InvalidDate}

\* date.toLocaleString(undefined, {weekday, month, day, year, hour, minute})
formatEventDate(date) ==
  IF date = 1 THEN S(<<"M","o","n",","," ","J","a","n"," ","5",","," ","2","0","2","6",","," ","6",":","0","0"," ","P","M">>)
  ELSE S(<<"T","u","e",","," ","J","a","n"," ","6",","," ","2","0","2","6",","," ","9",":","3","0"," ","A","M">>)

\* The display text always taken from the cleaned text.
DisplayCleaned(valid, d, cleaned) == cleaned

\* const display = valid ? formatEventDate(d) : cleaned;
Display(valid, d, cleaned) == IF valid THEN formatEventDate(d) ELSE cleaned

\* The object parseEngageSingleDate returns when new Date(cleaned), or null, is d.
DateResult(d, cleaned) ==
  LET valid == d # NullDate /\ d # InvalidDate
  IN [date |-> IF valid THEN d ELSE NullDate, display |-> Display(valid, d, cleaned)]

(***************************************************************************)
(* Call harness: one call of an extractor with a string or another value   *)
(***************************************************************************)

MaxDateParts == 2

NonStrings == {JsUndefined, JsNull, JsNumber(42), JsNumber(0)}

DateTexts ==
  { S(<<"T","B","D">>), S(<<"M","o","n",","," ","J","a","n"," ","5"," ","2","0","2","6">>),
    S(<<" ">>), S(<<"&","n","d","a","s","h",";">>), S(<<" ","-"," ">>) }

\* The text as it is, or each part in a paragraph of its own.
DateHtmlInputs ==
  { Concat(ts) : ts \in UNION { [1..n -> DateTexts] : n \in 0..MaxDateParts } }
    \cup { Concat([k \in 1..Len(ts) |-> POpen \o ts[k] \o PClose]) :
             ts \in UNION { [1..n -> DateTexts] : n \in 1..MaxDateParts } }

ArgumentsOf(fn) ==
  NonStrings \cup
    { JsString(s) :
        s \in CASE fn = "decodeHtmlEntities" -> {<<>>, S(<<"a","&","a","m","p",";","b">>)}
                [] fn = "extractAriaLabelsAsCategory" -> {<<>>, S(<<"p","l","a","i","n">>)}
                [] fn = "processDescriptionText" -> {<<>>, S(<<" ","a"," "," ","b"," ">>)}
                [] fn = "parseEngageSingleDate" -> DateHtmlInputs }

CallInit ==
  /\ callPc = "called"
  /\ callFn \in {"decodeHtmlEntities", "extractAriaLabelsAsCategory",
                 "processDescriptionText", "parseEngageSingleDate"}
  /\ callArg \in ArgumentsOf(callFn)
  /\ callRet = JsUndefined
  /\ txtPc = "idle"
  /\ txtIn = <<>>
  /\ txtOut = <<>>
  /\ txtPrev = <<>>
  /\ NoScan
  /\ NoBatch
  /\ NoService

CallDecodeHtmlEntities ==
  /\ callPc = "called"
  /\ callFn = "decodeHtmlEntities"
  /\ callRet' = decodeHtmlEntitiesOf(callArg)
  /\ callPc' = "returned"
  /\ UNCHANGED <<callFn, callArg>>
  /\ UNCHANGED <<txtVars, domVars, catVars, clsVars, rawTextAgain, batVars,
               dbVars, cronVars, appVars>>

CallExtractAriaLabelsAsCategory ==
  /\ callPc = "called"
  /\ callFn = "extractAriaLabelsAsCategory"
  /\ callRet' = extractAriaLabelsAsCategoryOf(callArg)
  /\ callPc' = "returned"
  /\ UNCHANGED <<callFn, callArg>>
  /\ UNCHANGED <<txtVars, domVars, catVars, clsVars, rawTextAgain, batVars,
               dbVars, cronVars, appVars>>

CallProcessDescriptionText ==
  /\ callPc = "called"
  /\ callFn = "processDescriptionText"
  /\ callRet' = processDescriptionTextOf(callArg)
  /\ callPc' = "returned"
  /\ UNCHANGED <<callFn, callArg>>
  /\ UNCHANGED <<txtVars, domVars, catVars, clsVars, rawTextAgain, batVars,
               dbVars, cronVars, appVars>>

\* parseEngageSingleDate(html)
CallParseEngageSingleDate ==
  /\ callPc = "called"
  /\ callFn = "parseEngageSingleDate"
  /\ LET cleaned == parseDateInfoFromHtml(callArg)
     IN \E d \in (IF cleaned # <<>> THEN NewDate(cleaned) ELSE {NullDate}) :
          callRet' = Returned(DateResult(d, cleaned))
  /\ callPc' = "returned"
  /\ UNCHANGED <<callFn, callArg>>
  /\ UNCHANGED <<txtVars, domVars, catVars, clsVars, rawTextAgain, batVars,
               dbVars, cronVars, appVars>>

CallNext ==
  \/ CallDecodeHtmlEntities
  \/ CallExtractAriaLabelsAsCategory
  \/ CallProcessDescriptionText
  \/ CallParseEngageSingleDate

SpecCalls == CallInit /\ [][CallNext]_vars

(***************************************************************************)
(* Scan harness: the detail-page pipeline of scanEventDetails              *)
(* (cleanEventDOM, extractNodeText, processDescriptionText) on parsed trees*)
(***************************************************************************)

MaxNodes == 5
MaxCardNodes == 3

\* The ancestors of node n under the parent map par.
RECURSIVE Ancestors(_, _)
Ancestors(par, n) ==
  IF par[n] = NoNode THEN {} ELSE {par[n]} \cup Ancestors(par, par[n])

\* Parent maps of the trees with nodes 1..n, root 1, numbered in document order.
ParentMaps(n) ==
  { par \in [1..n -> 0..n] :
      /\ par[1] = NoNode
      /\ \A i \in 2..n : par[i] \in 1..(i - 1)
      /\ \A i \in 3..n : par[i] = i - 1 \/ par[i] \in Ancestors(par, i - 1) }

\* The tree links a parent map stands for.
Links(par) ==
  [parent |-> par,
   kids |-> [m \in DOMAIN par |->
               SelectSeq([i \in 1..Len(par) |-> i], LAMBDA c : par[c] = m)]]

\* A parsed tree holds children only under elements other than br and img.
WellFormed(at, par) ==
  \A i \in DOMAIN par :
    par[i] # NoNode =>
      /\ IsElement(at[par[i]])
      /\ at[par[i]].tag \notin {"br", "img"}

TextA == S(<<"A">>)
TextB == S(<<" ","B"," "," ","c"," ">>)

\* Nodes of description markup.
ContentKinds ==
  { TextNode(TextA), TextNode(TextB),
    Element("br", {}, <<>>), Element("p", {}, <<>>), Element("span", {}, <<>>) }

\* The node walked: the tagless root parse() returns, an inline or a block element.
WalkedKinds ==
  { Element("", {}, <<>>), Element("span", {}, <<>>),
    Element("div", {}, <<>>), Element("p", {}, <<>>) }

\* Nodes of a detail card: content and the targets of cleanEventDOM.
CardKinds ==
  { TextNode(TextA),
    Element("div", {}, <<>>),
    Element("h3", {"card-block__title"}, <<>>),
    Element("div", {"card-border"}, <<>>),
    Element("a", {}, S(<<"C","o","p","y"," ","l","i","n","k">>)),
    Element("a", {}, S(<<"C","o","p","y"," ","L","i","n","k">>)),
    Element("a", {"btn"}, S(<<"C","o","p","y"," ","l","i","n","k">>)),
    Element("button", {}, <<>>),
    Element("img", {}, <<>>),
    Element("div", {"text-center"}, <<>>) }

\* Description markup under each kind of walked node.
ExtractInit ==
  /\ domPc = "parsed"
  /\ \E n \in 1..MaxNodes :
       \E par \in ParentMaps(n) :
         \E at \in [1..n -> ContentKinds \cup WalkedKinds] :
           /\ at[1] \in WalkedKinds
           /\ \A i \in 2..n : at[i] \in ContentKinds
           /\ WellFormed(at, par)
           /\ attr = at
           /\ dom = Links(par)
           /\ parsed = Links(par)
  /\ card = 1
  /\ rawText = <<>>
  /\ rawTextAgain = <<>>
  /\ description = <<>>
  /\ txtPc = "idle"
  /\ txtIn = <<>>
  /\ txtOut = <<>>
  /\ txtPrev = <<>>
  /\ catPc = "idle"
  /\ ariaLabels = <<>>
  /\ category = <<>>
  /\ clsPc = "idle"
  /\ nodeEnv = "production"
  /\ evCategory = <<>>
  /\ pageText = <<>>
  /\ scanResult = "none"
  /\ details = NoDetails
  /\ matches = <<>>
  /\ enriched = NoDetails
  /\ NoCall
  /\ NoBatch
  /\ NoService

\* root.querySelector("#event_details .card-block"): a card element below the root.
CleanInit ==
  /\ domPc = "parsed"
  /\ \E n \in 2..(2 + MaxCardNodes) :
       \E par \in ParentMaps(n) :
         \E at \in [1..n -> CardKinds \cup {Element("", {}, <<>>),
                                             Element("div", {"card-block"}, <<>>)}] :
           /\ at[1] = Element("", {}, <<>>)
           /\ at[2] = Element("div", {"card-block"}, <<>>)
           /\ \A i \in 3..n : at[i] \in CardKinds /\ par[i] # 1
           /\ WellFormed(at, par)
           /\ attr = at
           /\ dom = Links(par)
           /\ parsed = Links(par)
  /\ card = 2
  /\ rawText = <<>>
  /\ rawTextAgain = <<>>
  /\ description = <<>>
  /\ txtPc = "idle"
  /\ txtIn = <<>>
  /\ txtOut = <<>>
  /\ txtPrev = <<>>
  /\ catPc = "idle"
  /\ ariaLabels = <<>>
  /\ category = <<>>
  /\ clsPc = "idle"
  /\ nodeEnv = "production"
  /\ evCategory = <<>>
  /\ pageText = <<>>
  /\ scanResult = "none"
  /\ details = NoDetails
  /\ matches = <<>>
  /\ enriched = NoDetails
  /\ NoCall
  /\ NoBatch
  /\ NoService

\* cleanEventDOM(eventDetailsCard)
CleanCard ==
  /\ domPc = "parsed"
  /\ dom' = cleanEventDOM(attr, dom, card)
  /\ domPc' = "cleaned"
  /\ UNCHANGED <<attr, parsed, card, rawText, description>>
  /\ UNCHANGED <<txtVars, catVars, clsVars, callVars, rawTextAgain, batVars,
               dbVars, cronVars, appVars>>

\* const rawText = extractNodeText(eventDetailsCard)
ExtractText ==
  /\ domPc = "cleaned"
  /\ rawText' = extractNodeText(attr, dom, card)
  /\ dom' = TreeAfterWalk(attr, dom, card)
  /\ domPc' = "extracted"
  /\ UNCHANGED <<attr, parsed, card, description>>
  /\ UNCHANGED <<txtVars, catVars, clsVars, callVars, rawTextAgain, batVars,
               dbVars, cronVars, appVars>>

\* const description = processDescriptionText(rawText)
Describe ==
  /\ domPc = "extracted"
  /\ description' = processDescriptionText(rawText)
  /\ domPc' = "described"
  /\ UNCHANGED <<attr, dom, parsed, card, rawText>>
  /\ UNCHANGED <<txtVars, catVars, clsVars, callVars, rawTextAgain, batVars,
               dbVars, cronVars, appVars>>

ScanNext == CleanCard \/ ExtractText \/ Describe

\* extractNodeText(eventDetailsCard) called a second time on the tree the first call left.
ExtractTextAgain ==
  /\ domPc = "extracted"
  /\ rawTextAgain' = extractNodeText(attr, dom, card)
  /\ dom' = TreeAfterWalk(attr, dom, card)
  /\ domPc' = "extractedAgain"
  /\ UNCHANGED <<attr, parsed, card, rawText, description>>
  /\ UNCHANGED <<txtVars, catVars, clsVars, callVars, batVars,
               dbVars, cronVars, appVars>>

WalkNext == CleanCard \/ ExtractText \/ ExtractTextAgain

SpecWalk == ExtractInit /\ [][WalkNext]_vars

SpecExtract == ExtractInit /\ [][ScanNext]_vars

SpecClean == CleanInit /\ [][ScanNext]_vars

SpecText == TextInit /\ [][TextNext]_vars

\* A text node as indented markup holds it: two words with a line feed and indentation
\* between them.
TextWrapped == S(<<"A">>) \o <<LF, SP, SP>> \o S(<<"b">>)

\* Nodes of description markup without line breaks.
WrappedKinds ==
  { TextNode(TextA), TextNode(TextWrapped),
    Element("p", {}, <<>>), Element("span", {}, <<>>) }

\* Description markup whose text nodes hold line feeds, under each kind of walked node.
WrappedInit ==
  /\ domPc = "parsed"
  /\ \E n \in 1..MaxNodes :
       \E par \in ParentMaps(n) :
         \E at \in [1..n -> WrappedKinds \cup WalkedKinds] :
           /\ at[1] \in WalkedKinds
           /\ \A i \in 2..n : at[i] \in WrappedKinds
           /\ WellFormed(at, par)
           /\ attr = at
           /\ dom = Links(par)
           /\ parsed = Links(par)
  /\ card = 1
  /\ rawText = <<>>
  /\ rawTextAgain = <<>>
  /\ description = <<>>
  /\ txtPc = "idle"
  /\ txtIn = <<>>
  /\ txtOut = <<>>
  /\ txtPrev = <<>>
  /\ catPc = "idle"
  /\ ariaLabels = <<>>
  /\ category = <<>>
  /\ clsPc = "idle"
  /\ nodeEnv = "production"
  /\ evCategory = <<>>
  /\ pageText = <<>>
  /\ scanResult = "none"
  /\ details = NoDetails
  /\ matches = <<>>
  /\ enriched = NoDetails
  /\ NoCall
  /\ NoBatch
  /\ NoService

SpecWrapped == WrappedInit /\ [][ScanNext]_vars

(***************************************************************************)
(* Category harness: extractAriaLabelsAsCategory on the aria-label values  *)
(* of a parsed p22 fragment                                                *)
(***************************************************************************)

MaxLabels == 3

LabelLecture ==
  S(<<"L","e","c","t","u","r","e"," ","s","l","a","s","h"," ",
      "P","r","e","s","e","n","t","a","t","i","o","n">>)
LabelLectureLower ==
  S(<<"l","e","c","t","u","r","e"," ","/"," ",
      "p","r","e","s","e","n","t","a","t","i","o","n">>)
LabelWorkshop == S(<<"W","o","r","k","s","h","o","p">>)

\* aria-label values: category names, spelling variants of them, empty and blank ones.
LabelPool ==
  { LabelLecture, LabelLectureLower, LabelWorkshop,
    S(<<" ","W","O","R","K","S","H","O","P"," ">>),
    <<>>,
    S(<<" "," ">>),
    S(<<"A","r","t","s","/","F","o","o","d">>),
    S(<<"a","r","t","s"," "," ","S","L","A","S","H","TAB","f","o","o","d">>),
    S(<<"s","l","a","s","h">>) }

CategoryInit ==
  /\ catPc = "input"
  /\ ariaLabels \in UNION { [1..n -> LabelPool] : n \in 0..MaxLabels }
  /\ category = <<>>
  /\ txtPc = "idle"
  /\ txtIn = <<>>
  /\ txtOut = <<>>
  /\ txtPrev = <<>>
  /\ domPc = "idle"
  /\ attr = <<>>
  /\ dom = EmptyDom
  /\ parsed = EmptyDom
  /\ card = NoNode
  /\ rawText = <<>>
  /\ rawTextAgain = <<>>
  /\ description = <<>>
  /\ clsPc = "idle"
  /\ nodeEnv = "production"
  /\ evCategory = <<>>
  /\ pageText = <<>>
  /\ scanResult = "none"
  /\ details = NoDetails
  /\ matches = <<>>
  /\ enriched = NoDetails
  /\ NoCall
  /\ NoBatch
  /\ NoService

\* category: extractAriaLabelsAsCategory(item.p22)
ExtractCategory ==
  /\ catPc = "input"
  /\ category' = extractAriaLabelsAsCategory(ariaLabels)
  /\ catPc' = "extracted"
  /\ UNCHANGED ariaLabels
  /\ UNCHANGED <<txtVars, domVars, clsVars, callVars, rawTextAgain, batVars,
               dbVars, cronVars, appVars>>

CategoryNext == ExtractCategory

SpecCategory == CategoryInit /\ [][CategoryNext]_vars

(***************************************************************************)
(* Event harness: one listed event scanned by scanEventDetails and         *)
(* enriched by processEventBatch                                           *)
(***************************************************************************)

MaxFragments == 2

\* const description = processDescriptionText(rawText), for every raw text made of at
\* most MaxFragments fragments of pool.
Texts(pool) ==
  { processDescriptionText(Concat(ts)) :
      ts \in UNION { [1..n -> pool] : n \in 0..MaxFragments } }

HousingFragments ==
  { S(<<"R","A">>), S(<<"R","A","s">>), S(<<"r","a">>), S(<<"g","r","a","s","s">>), S(<<"d","r","a","m","a">>),
    S(<<" ">>), S(<<".">>), S(<<"e'">>),
    S(<<"H","o","u","s","i","n","g"," ","R","e","s","i","d","e","n","t","s"," ","O","n","l","y">>) }

BringYourRA ==
  S(<<"P","l","e","a","s","e"," ","b","r","i","n","g"," ","y","o","u","r"," ","R","A",
    " ","t","o"," ","t","h","e"," ","l","a","w","n">>)
GrassIsGreen == S(<<"t","h","e"," ","g","r","a","s","s"," ","i","s"," ","g","r","e","e","n">>)

HousingDescriptions ==
  Texts(HousingFragments)
    \cup { processDescriptionText(t) : t \in {BringYourRA, GrassIsGreen} }

FreePizzaServed ==
  S(<<"f","r","e","e"," ","p","i","z","z","a"," ","w","i","l","l"," ","b","e"," ","s",
    "e","r","v","e","d">>)

FoodFragments ==
  { S(<<"F","r","e","e"," ","P","i","z","z","a">>), S(<<"s","e","a","f","o","o","d">>), S(<<"t","r","e","a","t","s">>),
    S(<<"S","n","a","c","k","s"," ","P","r","o","v","i","d","e","d">>), S(<<" ">>), S(<<"x">>),
    FreePizzaServed }

FoodDescriptions ==
  Texts(FoodFragments) \cup { processDescriptionText(t) : t \in {BringYourRA} }

EventCategories ==
  { <<>>,
    S(<<"R","A"," ","F","l","o","o","r"," ","P","r","o","g","r","a","m">>),
    S(<<"r","a"," ","f","l","o","o","r"," ","p","r","o","g","r","a","m">>),
    S(<<"W","o","r","k","s","h","o","p"," ","/"," ","R","e","s"," ","C","o","l","l","e","g","e"," ","C","u","p">>),
    S(<<"R","e","s","i","d","e","n","t","i","a","l"," ","C","o","l","l","e","g","e"," ",
      "o","r"," ","C","o","m","m","u","n","i","t","y"," ","E","v","e","n","t">>) }

HousingInit ==
  /\ clsPc = "listed"
  /\ nodeEnv \in {"development", "production"}
  /\ evCategory \in EventCategories
  /\ pageText \in HousingDescriptions
  /\ scanResult = "none"
  /\ details = NoDetails
  /\ matches = <<>>
  /\ enriched = NoDetails
  /\ NoCall
  /\ NoBatch
  /\ NoService
  /\ txtPc = "idle"
  /\ txtIn = <<>>
  /\ txtOut = <<>>
  /\ txtPrev = <<>>
  /\ domPc = "idle"
  /\ attr = <<>>
  /\ dom = EmptyDom
  /\ parsed = EmptyDom
  /\ card = NoNode
  /\ rawText = <<>>
  /\ rawTextAgain = <<>>
  /\ description = <<>>
  /\ catPc = "idle"
  /\ ariaLabels = <<>>
  /\ category = <<>>

FreeFoodInit ==
  /\ clsPc = "listed"
  /\ nodeEnv \in {"development", "production"}
  /\ evCategory \in EventCategories
  /\ pageText \in FoodDescriptions
  /\ scanResult = "none"
  /\ details = NoDetails
  /\ matches = <<>>
  /\ enriched = NoDetails
  /\ NoCall
  /\ NoBatch
  /\ NoService
  /\ txtPc = "idle"
  /\ txtIn = <<>>
  /\ txtOut = <<>>
  /\ txtPrev = <<>>
  /\ domPc = "idle"
  /\ attr = <<>>
  /\ dom = EmptyDom
  /\ parsed = EmptyDom
  /\ card = NoNode
  /\ rawText = <<>>
  /\ rawTextAgain = <<>>
  /\ description = <<>>
  /\ catPc = "idle"
  /\ ariaLabels = <<>>
  /\ category = <<>>

\* const details = await scanEventDetails(event.id): the page yields its description,
\* has no detail card, or the fetch or the extraction fails.
ScanEventDetails ==
  /\ clsPc = "listed"
  /\ \E result \in {"ok", "noCard", "error"} :
       /\ scanResult' = result
       /\ details' = ScanOutcome(result, pageText)
       /\ matches' = IF result = "ok" /\ nodeEnv = "development"
                     THEN getMatchedKeywords(pageText) ELSE <<>>
  /\ clsPc' = "scanned"
  /\ UNCHANGED <<nodeEnv, evCategory, pageText, enriched>>
  /\ UNCHANGED <<txtVars, domVars, catVars, callVars, rawTextAgain, batVars,
               dbVars, cronVars, appVars>>

\* The object processEventBatch returns for the event.
EnrichEvent ==
  /\ clsPc = "scanned"
  /\ enriched' = [description |-> details.description,
                  hasFreeFood |-> details.hasFreeFood,
                  isHousingOnly |-> details.isHousingOnly \/ isHousingCategory(evCategory)]
  /\ clsPc' = "enriched"
  /\ UNCHANGED <<nodeEnv, evCategory, pageText, scanResult, details, matches>>
  /\ UNCHANGED <<txtVars, domVars, catVars, callVars, rawTextAgain, batVars,
               dbVars, cronVars, appVars>>

EventNext == ScanEventDetails \/ EnrichEvent

SpecHousing == HousingInit /\ [][EventNext]_vars

SpecFreeFood == FreeFoodInit /\ [][EventNext]_vars

(***************************************************************************)
(* Batch harness: scanEventsInBatches over a list of events, with the      *)
(* detail scans of a batch settling in any order                           *)
(***************************************************************************)

MaxEvents == 6

BATCH_SIZE == 5
DELAY_MS == 200

\* The clock advances in steps of TickMs while the inter-batch timer runs.
TickMs == 100

\* The listed event with id k, and the description its detail page yields.
EventOf(k) ==
  [id |-> k,
   title |-> IF k % 2 = 1 THEN S(<<"J","a","m">>) ELSE S(<<"T","e","a">>),
   location |-> IF k % 2 = 1 THEN S(<<"L","o","t">>) ELSE S(<<"J","A","M"," ","l","a","b">>),
   category |-> IF k % 2 = 0 THEN S(<<"R","A"," ","F","l","o","o","r"," ","P","r","o","g","r","a","m">>) ELSE <<>>]

PageOf(id) ==
  IF id % 3 = 0 THEN S(<<"F","r","e","e"," ","P","i","z","z","a">>)
  ELSE S(<<"R","A"," ","n","i","g","h","t">>)

\* An event whose scan has not started.
NotStarted == [st |-> "notStarted", result |-> "none", details |-> NoDetails]

\* The smaller of two numbers.
Min(a, b) == IF a < b THEN a ELSE b

\* events.slice(i, i + BATCH_SIZE), as positions in events
BatchAt(i) == (i + 1)..Min(i + BATCH_SIZE, Len(events))

\* The timer is answered at once.
TimerDueAtOnce(ms) == TRUE

\* setTimeout(resolve, DELAY_MS): the timer does not fire before DELAY_MS have passed.
TimerDue(ms) == ms >= DELAY_MS

\* The enriched object processEventBatch maps event k to.
EnrichedOf(k) ==
  [id |-> events[k].id,
   title |-> events[k].title,
   location |-> events[k].location,
   category |-> events[k].category,
   description |-> fetches[k].details.description,
   hasFreeFood |-> fetches[k].details.hasFreeFood,
   isHousingOnly |-> fetches[k].details.isHousingOnly
                       \/ isHousingCategory(events[k].category),
   scanned |-> TRUE]

BatchInit ==
  /\ batPc = "loop"
  /\ \E n \in 0..MaxEvents : events = [k \in 1..n |-> EventOf(k)]
  /\ cursor = 0
  /\ fetches = [k \in 1..Len(events) |-> NotStarted]
  /\ scannedEvents = <<>>
  /\ elapsed = 0
  /\ txtPc = "idle"
  /\ txtIn = <<>>
  /\ txtOut = <<>>
  /\ txtPrev = <<>>
  /\ NoScan
  /\ NoCall
  /\ NoService

\* i < events.length: processEventBatch(batch) calls scanEventDetails for every event
\* of the slice, which starts its fetch.
StartBatch ==
  /\ batPc = "loop"
  /\ cursor < Len(events)
  /\ fetches' = [k \in 1..Len(events) |->
                   IF k \in BatchAt(cursor) THEN [fetches[k] EXCEPT !.st = "inFlight"]
                   ELSE fetches[k]]
  /\ batPc' = "batch"
  /\ UNCHANGED <<events, cursor, scannedEvents, elapsed>>
  /\ UNCHANGED <<txtVars, domVars, catVars, clsVars, callVars, rawTextAgain,
               dbVars, cronVars, appVars>>

\* scanEventDetails(event.id) resolves: with the page's description, or with a
\* placeholder when the card is missing or anything fails.
ScanSettles ==
  /\ batPc = "batch"
  /\ \E k \in BatchAt(cursor) :
       /\ fetches[k].st = "inFlight"
       /\ \E result \in {"ok", "noCard", "error"} :
            fetches' = [fetches EXCEPT ![k] =
                          [st |-> "scanned", result |-> result,
                           details |-> ScanOutcome(result, PageOf(events[k].id))]]
  /\ UNCHANGED <<batPc, events, cursor, scannedEvents, elapsed>>
  /\ UNCHANGED <<txtVars, domVars, catVars, clsVars, callVars, rawTextAgain,
               dbVars, cronVars, appVars>>

\* The mapping callback of processEventBatch goes on after its await.
EnrichScanned ==
  /\ batPc = "batch"
  /\ \E k \in BatchAt(cursor) :
       /\ fetches[k].st = "scanned"
       /\ fetches' = [fetches EXCEPT ![k].st = "enriched"]
  /\ UNCHANGED <<batPc, events, cursor, scannedEvents, elapsed>>
  /\ UNCHANGED <<txtVars, domVars, catVars, clsVars, callVars, rawTextAgain,
               dbVars, cronVars, appVars>>

\* Promise.all resolves: scannedEvents.push(...results), then the timer is set.
BatchResolves ==
  /\ batPc = "batch"
  /\ \A k \in BatchAt(cursor) : fetches[k].st = "enriched"
  /\ scannedEvents' =
       scannedEvents \o [j \in 1..(Min(cursor + BATCH_SIZE, Len(events)) - cursor) |->
                           EnrichedOf(cursor + j)]
  /\ elapsed' = 0
  /\ batPc' = "delay"
  /\ UNCHANGED <<events, cursor, fetches>>
  /\ UNCHANGED <<txtVars, domVars, catVars, clsVars, callVars, rawTextAgain,
               dbVars, cronVars, appVars>>

\* Time passes while the loop waits for the timer.
Tick ==
  /\ batPc = "delay"
  /\ elapsed < DELAY_MS
  /\ elapsed' = elapsed + TickMs
  /\ UNCHANGED <<batPc, events, cursor, fetches, scannedEvents>>
  /\ UNCHANGED <<txtVars, domVars, catVars, clsVars, callVars, rawTextAgain,
               dbVars, cronVars, appVars>>

\* The timer fires; i += BATCH_SIZE.
TimerFires ==
  /\ batPc = "delay"
  /\ TimerDue(elapsed)
  /\ cursor' = cursor + BATCH_SIZE
  /\ batPc' = "loop"
  /\ UNCHANGED <<events, fetches, scannedEvents, elapsed>>
  /\ UNCHANGED <<txtVars, domVars, catVars, clsVars, callVars, rawTextAgain,
               dbVars, cronVars, appVars>>

\* The loop ends: return scannedEvents.
ReturnScanned ==
  /\ batPc = "loop"
  /\ cursor >= Len(events)
  /\ batPc' = "done"
  /\ UNCHANGED <<events, cursor, fetches, scannedEvents, elapsed>>
  /\ UNCHANGED <<txtVars, domVars, catVars, clsVars, callVars, rawTextAgain,
               dbVars, cronVars, appVars>>

BatchNext ==
  \/ StartBatch
  \/ ScanSettles
  \/ EnrichScanned
  \/ BatchResolves
  \/ Tick
  \/ TimerFires
  \/ ReturnScanned

SpecBatch == BatchInit /\ [][BatchNext]_vars

(***************************************************************************)
(* eventRepository.js: the rows written to the events table                *)
(***************************************************************************)

STALE_THRESHOLD_DAYS == 30

\* The row with order_index counted from one.
mapToDbEventFromOne(e, index, at) ==
  [id |-> e.id,
   title |-> e.title,
   location |-> e.location,
   has_free_food |-> e.hasFreeFood,
   scanned |-> TRUE,
   updated_at |-> at,
   order_index |-> index + 1,
   status |-> "active"]

\* mapToDbEvent(e, index), called at date at (new Date()).
mapToDbEvent(e, index, at) ==
  [id |-> e.id,
   title |-> e.title,
   location |-> e.location,
   has_free_food |-> e.hasFreeFood,
   scanned |-> TRUE,
   updated_at |-> at,
   order_index |-> index,
   status |-> "active"]

\* scannedEvents.map(mapToDbEvent): the callback receives the element and its index,
\* counted from zero.
DbEventsOf(scanned, at) ==
  [i \in 1..Len(scanned) |-> mapToDbEvent(scanned[i], i - 1, at)]

\* No row with this id.
NoRow == [status |-> "absent"]

\* The ids of a list of events.
IdsOf(list) == [k \in 1..Len(list) |-> list[k].id]

\* supabase.from("events").upsert(dbEvents, { onConflict: "id" }): every row of
\* dbEvents is inserted, or replaces the row with its id.
upsertEventsToDb(table, scanned, at) ==
  LET dbEvents == DbEventsOf(scanned, at)
  IN [id \in DOMAIN table |->
        IF \E k \in 1..Len(dbEvents) : dbEvents[k].id = id
        THEN dbEvents[CHOOSE k \in 1..Len(dbEvents) : dbEvents[k].id = id]
        ELSE table[id]]

\* The update that leaves every row as it is.
markStaleEventsNowhere(table, activeEventIds, at) == table

\* .update({ status: "stale", updated_at }).not("id", "in", (ids)).eq("status", "active")
markStaleEvents(table, activeEventIds, at) ==
  [id \in DOMAIN table |->
     IF table[id].status = "active" /\ id \notin SeqToSet(activeEventIds)
     THEN [table[id] EXCEPT !.status = "stale", !.updated_at = at]
     ELSE table[id]]

\* The delete of every stale row, whatever its age.
deleteStaleEventsOfAnyAge(table, at) ==
  [id \in DOMAIN table |->
     IF table[id].status = "stale" THEN NoRow ELSE table[id]]

\* .delete().eq("status", "stale").lt("updated_at", cutoffDate), with cutoffDate
\* STALE_THRESHOLD_DAYS days before now.
deleteOldStaleEvents(table, at) ==
  LET cutoffDate == at - STALE_THRESHOLD_DAYS
  IN [id \in DOMAIN table |->
        IF table[id].status = "stale" /\ table[id].updated_at < cutoffDate
        THEN NoRow
        ELSE table[id]]

(***************************************************************************)
(* Cron harness: invocations of the cron handler, one after the other,     *)
(* against the events table, while days pass                               *)
(***************************************************************************)

MaxListed == 2
MaxDay == 47

\* The ids the list API hands out.
EventIds == 1..MaxListed

\* The days that pass between two invocations: half the threshold, or a day more.
DaySteps == {STALE_THRESHOLD_DAYS \div 2, STALE_THRESHOLD_DAYS \div 2 + 1}

\* process.env.CRON_SECRET
CRON_SECRET == S(<<"s","3">>)

Bearer == S(<<"B","e","a","r","e","r"," ">>)

\* The Authorization header of a request: missing, right, and wrong in several ways.
Headers ==
  { JsUndefined,
    JsString(Bearer \o CRON_SECRET),
    JsString(Bearer \o CRON_SECRET \o <<SP>>),
    JsString(S(<<"b","e","a","r","e","r"," ">>) \o CRON_SECRET),
    JsString(CRON_SECRET),
    JsString(Bearer) }

\* A header that starts with the expected value is accepted.
verifyAuthByPrefix(authHeader) ==
  /\ authHeader.t = "string"
  /\ MatchAt(authHeader.v, Bearer \o CRON_SECRET, 1)

\* verifyAuth: authHeader !== `Bearer ${process.env.CRON_SECRET}` is refused.
verifyAuth(authHeader) == authHeader = JsString(Bearer \o CRON_SECRET)

\* What fetchEngageEvents can resolve to: lists of events, the empty list and lists
\* that name an id twice included.
EventLists ==
  UNION { [1..n -> {EventOf(id) : id \in EventIds}] : n \in 0..MaxListed }

\* What scanEventsInBatches resolves to for a list: one enriched entry per event.
ScannedOf(e) ==
  LET d == ScanOutcome("ok", PageOf(e.id))
  IN [id |-> e.id,
      title |-> e.title,
      location |-> e.location,
      category |-> e.category,
      description |-> d.description,
      hasFreeFood |-> d.hasFreeFood,
      isHousingOnly |-> d.isHousingOnly \/ isHousingCategory(e.category),
      scanned |-> TRUE]

\* The steps of a run, in the order the handler takes them.
RunSteps == <<"fetch", "scan", "upsert", "mark", "delete">>

Started(name) == Append(steps, [step |-> name, st |-> "started"])

Ended(how) == [steps EXCEPT ![Len(steps)].st = how]

\* The last step has ended well and the next one starts.
Then(name) == Append(Ended("done"), [step |-> name, st |-> "started"])

\* No id is named twice.
DistinctIds(list) ==
  \A j, k \in 1..Len(list) : list[j].id = list[k].id => j = k

CronInit ==
  /\ cronPc = "waiting"
  /\ db = [id \in EventIds |-> NoRow]
  /\ today = 0
  /\ authorization = JsUndefined
  /\ runEvents = <<>>
  /\ runScanned = <<>>
  /\ responses = <<>>
  /\ steps = <<>>
  /\ dbAtStart = [id \in EventIds |-> NoRow]
  /\ txtPc = "idle"
  /\ txtIn = <<>>
  /\ txtOut = <<>>
  /\ txtPrev = <<>>
  /\ NoScan
  /\ NoCall
  /\ NoBatch
  /\ NoApp

\* A request reaches the endpoint.
Invoke ==
  /\ cronPc = "waiting"
  /\ \E h \in Headers : authorization' = h
  /\ cronPc' = "invoked"
  /\ dbAtStart' = db
  /\ UNCHANGED <<runEvents, runScanned, responses, steps>>
  /\ UNCHANGED <<dbVars, appVars>>
  /\ UNCHANGED <<txtVars, domVars, catVars, clsVars, callVars, rawTextAgain, batVars>>

\* handler: verifyAuth fails, 401 is sent and the handler returns.
Unauthorized ==
  /\ cronPc = "invoked"
  /\ ~verifyAuth(authorization)
  /\ responses' = Append(responses, 401)
  /\ cronPc' = "returned"
  /\ UNCHANGED <<authorization, runEvents, runScanned, steps, dbAtStart>>
  /\ UNCHANGED <<dbVars, appVars>>
  /\ UNCHANGED <<txtVars, domVars, catVars, clsVars, callVars, rawTextAgain, batVars>>

\* handler: verifyAuth passes; await fetchEngageEvents()
StartFetch ==
  /\ cronPc = "invoked"
  /\ verifyAuth(authorization)
  /\ steps' = Started("fetch")
  /\ cronPc' = "fetching"
  /\ UNCHANGED <<authorization, runEvents, runScanned, responses, dbAtStart>>
  /\ UNCHANGED <<dbVars, appVars>>
  /\ UNCHANGED <<txtVars, domVars, catVars, clsVars, callVars, rawTextAgain, batVars>>

\* An awaited call rejects and the handler returns without a response.
FailUnanswered ==
  /\ steps' = Ended("failed")
  /\ responses' = responses
  /\ cronPc' = "returned"

\* An awaited call rejects: catch (error) { return sendErrorResponse(res, error) }
Fail ==
  /\ steps' = Ended("failed")
  /\ responses' = Append(responses, 500)
  /\ cronPc' = "returned"

\* fetchEngageEvents resolves; await scanEventsInBatches(events)
FetchResolves ==
  /\ cronPc = "fetching"
  /\ \E list \in EventLists : runEvents' = list
  /\ steps' = Then("scan")
  /\ cronPc' = "scanning"
  /\ UNCHANGED <<authorization, runScanned, responses, dbAtStart>>
  /\ UNCHANGED <<dbVars, appVars>>
  /\ UNCHANGED <<txtVars, domVars, catVars, clsVars, callVars, rawTextAgain, batVars>>

\* fetchEngageEvents rejects: the response is not ok, or is not JSON.
FetchFails ==
  /\ cronPc = "fetching"
  /\ Fail
  /\ UNCHANGED <<authorization, runEvents, runScanned, dbAtStart>>
  /\ UNCHANGED <<dbVars, appVars>>
  /\ UNCHANGED <<txtVars, domVars, catVars, clsVars, callVars, rawTextAgain, batVars>>

\* scanEventsInBatches resolves; await upsertEventsToDb(scannedEvents)
ScanResolves ==
  /\ cronPc = "scanning"
  /\ runScanned' = [k \in 1..Len(runEvents) |-> ScannedOf(runEvents[k])]
  /\ steps' = Then("upsert")
  /\ cronPc' = "upserting"
  /\ UNCHANGED <<authorization, runEvents, responses, dbAtStart>>
  /\ UNCHANGED <<dbVars, appVars>>
  /\ UNCHANGED <<txtVars, domVars, catVars, clsVars, callVars, rawTextAgain, batVars>>

\* The upsert is done; markStaleEvents(scannedEvents.map((e) => e.id)) is awaited.
\* A statement that would write one row twice is refused by the database.
UpsertResolves ==
  /\ cronPc = "upserting"
  /\ DistinctIds(runScanned)
  /\ db' = upsertEventsToDb(db, runScanned, today)
  /\ steps' = Then("mark")
  /\ cronPc' = "marking"
  /\ UNCHANGED <<today, authorization, runEvents, runScanned, responses, dbAtStart>>
  /\ UNCHANGED appVars
  /\ UNCHANGED <<txtVars, domVars, catVars, clsVars, callVars, rawTextAgain, batVars>>

\* The upsert reports an error: if (error) throw error. The statement is refused,
\* or its answer is lost after it was applied.
UpsertFails ==
  /\ cronPc = "upserting"
  /\ \/ db' = db
     \/ DistinctIds(runScanned) /\ db' = upsertEventsToDb(db, runScanned, today)
  /\ Fail
  /\ UNCHANGED <<today, authorization, runEvents, runScanned, dbAtStart>>
  /\ UNCHANGED appVars
  /\ UNCHANGED <<txtVars, domVars, catVars, clsVars, callVars, rawTextAgain, batVars>>

\* The update is done; deleteOldStaleEvents() is awaited.
MarkResolves ==
  /\ cronPc = "marking"
  /\ db' = markStaleEvents(db, IdsOf(runScanned), today)
  /\ steps' = Then("delete")
  /\ cronPc' = "deleting"
  /\ UNCHANGED <<today, authorization, runEvents, runScanned, responses, dbAtStart>>
  /\ UNCHANGED appVars
  /\ UNCHANGED <<txtVars, domVars, catVars, clsVars, callVars, rawTextAgain, batVars>>

\* The update reports an error, applied or not.
MarkFails ==
  /\ cronPc = "marking"
  /\ \/ db' = db
     \/ db' = markStaleEvents(db, IdsOf(runScanned), today)
  /\ Fail
  /\ UNCHANGED <<today, authorization, runEvents, runScanned, dbAtStart>>
  /\ UNCHANGED appVars
  /\ UNCHANGED <<txtVars, domVars, catVars, clsVars, callVars, rawTextAgain, batVars>>

\* The delete is done: sendSuccessResponse(res, scannedEvents, deletedCount)
DeleteResolves ==
  /\ cronPc = "deleting"
  /\ db' = deleteOldStaleEvents(db, today)
  /\ steps' = Ended("done")
  /\ responses' = Append(responses, 200)
  /\ cronPc' = "returned"
  /\ UNCHANGED <<today, authorization, runEvents, runScanned, dbAtStart>>
  /\ UNCHANGED appVars
  /\ UNCHANGED <<txtVars, domVars, catVars, clsVars, callVars, rawTextAgain, batVars>>

\* The delete reports an error, applied or not.
DeleteFails ==
  /\ cronPc = "deleting"
  /\ \/ db' = db
     \/ db' = deleteOldStaleEvents(db, today)
  /\ Fail
  /\ UNCHANGED <<today, authorization, runEvents, runScanned, dbAtStart>>
  /\ UNCHANGED appVars
  /\ UNCHANGED <<txtVars, domVars, catVars, clsVars, callVars, rawTextAgain, batVars>>

\* Days pass until the endpoint is requested again; nothing of the invocation that
\* returned is kept.
DaysPass ==
  /\ cronPc = "returned"
  /\ \E d \in DaySteps :
       /\ today + d <= MaxDay
       /\ today' = today + d
  /\ cronPc' = "waiting"
  /\ authorization' = JsUndefined
  /\ runEvents' = <<>>
  /\ runScanned' = <<>>
  /\ responses' = <<>>
  /\ steps' = <<>>
  /\ dbAtStart' = db
  /\ UNCHANGED db
  /\ UNCHANGED appVars
  /\ UNCHANGED <<txtVars, domVars, catVars, clsVars, callVars, rawTextAgain, batVars>>

CronNext ==
  \/ Invoke
  \/ Unauthorized
  \/ StartFetch
  \/ FetchResolves
  \/ FetchFails
  \/ ScanResolves
  \/ UpsertResolves
  \/ UpsertFails
  \/ MarkResolves
  \/ MarkFails
  \/ DeleteResolves
  \/ DeleteFails
  \/ DaysPass

SpecCron == CronInit /\ [][CronNext]_vars

\* What the handler does once a request has arrived.
HandlerNext ==
  \/ Unauthorized
  \/ StartFetch
  \/ FetchResolves
  \/ FetchFails
  \/ ScanResolves
  \/ UpsertResolves
  \/ UpsertFails
  \/ MarkResolves
  \/ MarkFails
  \/ DeleteResolves
  \/ DeleteFails

\* Every call the handler awaits settles: the list API and the database answer or fail.
SpecCronFair == SpecCron /\ WF_vars(HandlerNext)

(***************************************************************************)
(* Page harness: App loads the events table once, then the visitor types   *)
(* in the search box and toggles the free-food filter                      *)
(***************************************************************************)

MaxRows == 3

\* The row the cron job wrote for event id, with the status and the flag it has now.
RowOf(id, status, free) ==
  [mapToDbEvent(ScannedOf(EventOf(id)), id - 1, 0) EXCEPT
     !.status = status, !.has_free_food = free]

\* The tables the page can find: per id no row, or a row active or stale, with or
\* without free food.
Tables ==
  LET rows == {NoRow} \cup { RowOf(id, status, free) :
                               id \in 1..MaxRows, status \in {"active", "stale"},
                               free \in BOOLEAN }
  IN { table \in [1..MaxRows -> rows] :
         \A id \in 1..MaxRows : table[id] = NoRow \/ table[id].id = id }

\* What the visitor types in the search box.
Queries ==
  { <<>>, S(<<"j","a","m">>), S(<<"L","O">>), S(<<"x">>) }

\* Rows in ascending order_index.
RECURSIVE Ordered(_)
Ordered(rows) ==
  IF rows = {} THEN <<>>
  ELSE LET first == CHOOSE r \in rows : \A q \in rows : r.order_index <= q.order_index
       IN <<first>> \o Ordered(rows \ {first})

\* The query without its status filter.
SelectAll(table) ==
  Ordered({ table[id] : id \in { i \in DOMAIN table : table[i].status # "absent" } })

\* supabase.from("events").select("*").eq("status", "active").order("order_index")
SelectActive(table) ==
  Ordered({ table[id] : id \in { i \in DOMAIN table : table[i].status = "active" } })

\* The object loadEvents makes of a row.
TransformedEvent(row) ==
  [id |-> row.id,
   title |-> row.title,
   location |-> row.location,
   hasFreeFood |-> row.has_free_food,
   scanned |-> row.scanned,
   status |-> row.status]

\* const filteredEvents = events.filter(...)
filteredEvents ==
  SelectSeq(appEvents,
            LAMBDA event :
              LET matchesFreeFood == ~showOnlyFreeFood \/ event.hasFreeFood
                  matchesSearch ==
                    \/ Includes(ToLowerCase(event.title), ToLowerCase(searchQuery))
                    \/ Includes(ToLowerCase(event.location), ToLowerCase(searchQuery))
              IN matchesFreeFood /\ matchesSearch)

\* The cards on the page: the grid is rendered when !loading && !error.
EventsGrid == IF appPc = "ready" THEN filteredEvents ELSE <<>>

PageInit ==
  /\ appPc = "mounted"
  /\ appEvents = <<>>
  /\ showOnlyFreeFood = FALSE
  /\ searchQuery = <<>>
  /\ selectedEvent = JsNull
  /\ eventDetails = JsNull
  /\ loadingDetails = FALSE
  /\ pending = <<>>
  /\ db \in Tables
  /\ today = 0
  /\ txtPc = "idle"
  /\ txtIn = <<>>
  /\ txtOut = <<>>
  /\ txtPrev = <<>>
  /\ NoScan
  /\ NoCall
  /\ NoBatch
  /\ NoCron

\* useEffect(() => { loadEvents() }, []): loading is set and the query is sent.
LoadEvents ==
  /\ appPc = "mounted"
  /\ appPc' = "loading"
  /\ UNCHANGED <<appEvents, showOnlyFreeFood, searchQuery, selectedEvent, eventDetails,
                 loadingDetails, pending>>
  /\ UNCHANGED <<txtVars, domVars, catVars, clsVars, callVars, rawTextAgain, batVars,
                 dbVars, cronVars>>

\* The query answers: setEvents(transformedEvents), setLoading(false).
LoadResolves ==
  /\ appPc = "loading"
  /\ appEvents' = LET data == SelectActive(db)
                  IN [k \in 1..Len(data) |-> TransformedEvent(data[k])]
  /\ appPc' = "ready"
  /\ UNCHANGED <<showOnlyFreeFood, searchQuery, selectedEvent, eventDetails,
                 loadingDetails, pending>>
  /\ UNCHANGED <<txtVars, domVars, catVars, clsVars, callVars, rawTextAgain, batVars,
                 dbVars, cronVars>>

\* The query fails: setError(...), setLoading(false).
LoadFails ==
  /\ appPc = "loading"
  /\ appPc' = "failed"
  /\ UNCHANGED <<appEvents, showOnlyFreeFood, searchQuery, selectedEvent, eventDetails,
                 loadingDetails, pending>>
  /\ UNCHANGED <<txtVars, domVars, catVars, clsVars, callVars, rawTextAgain, batVars,
                 dbVars, cronVars>>

\* onChange of the search box, which is rendered when !loading && events.length > 0.
SetSearchQuery ==
  /\ appPc \in {"ready", "failed"}
  /\ Len(appEvents) > 0
  /\ \E q \in Queries : searchQuery' = q
  /\ UNCHANGED <<appPc, appEvents, showOnlyFreeFood, selectedEvent, eventDetails,
                 loadingDetails, pending>>
  /\ UNCHANGED <<txtVars, domVars, catVars, clsVars, callVars, rawTextAgain, batVars,
                 dbVars, cronVars>>

\* onClick of the filter button: setShowOnlyFreeFood(!showOnlyFreeFood)
ToggleFreeFood ==
  /\ appPc \in {"ready", "failed"}
  /\ Len(appEvents) > 0
  /\ showOnlyFreeFood' = ~showOnlyFreeFood
  /\ UNCHANGED <<appPc, appEvents, searchQuery, selectedEvent, eventDetails,
                 loadingDetails, pending>>
  /\ UNCHANGED <<txtVars, domVars, catVars, clsVars, callVars, rawTextAgain, batVars,
                 dbVars, cronVars>>

PageNext ==
  \/ LoadEvents
  \/ LoadResolves
  \/ LoadFails
  \/ SetSearchQuery
  \/ ToggleFreeFood

SpecPage == PageInit /\ [][PageNext]_vars

(***************************************************************************)
(* Modal harness: the App that fetches an event's details when its card is *)
(* clicked, with the responses arriving at any time                        *)
(***************************************************************************)

MaxPending == 3

\* A JavaScript object, told from others by what it was made of.
JsObject(of) == [t |-> "object", v |-> of]

\* The details fetchEventDetails(eventId) sets: parsed from the page, or the fallback
\* of its catch block.
DetailsOf(eventId, ok) == JsObject(<<eventId, IF ok THEN 1 ELSE 0>>)

ModalInit ==
  /\ appPc = "ready"
  /\ appEvents = [k \in 1..MaxListed |-> EventOf(k)]
  /\ showOnlyFreeFood = FALSE
  /\ searchQuery = <<>>
  /\ selectedEvent = JsNull
  /\ eventDetails = JsNull
  /\ loadingDetails = FALSE
  /\ pending = <<>>
  /\ txtPc = "idle"
  /\ txtIn = <<>>
  /\ txtOut = <<>>
  /\ txtPrev = <<>>
  /\ NoScan
  /\ NoCall
  /\ NoBatch
  /\ NoDb
  /\ NoCron

\* handleEventClick(event), from a card of the grid; the open modal covers the grid.
\* fetchEventDetails runs up to its await: setLoadingDetails(true), fetch(url).
HandleEventClick ==
  /\ appPc = "ready"
  /\ selectedEvent = JsNull
  /\ Len(pending) < MaxPending
  /\ \E k \in 1..Len(appEvents) :
       /\ selectedEvent' = JsObject(<<appEvents[k].id>>)
       /\ pending' = Append(pending, appEvents[k].id)
  /\ eventDetails' = JsNull
  /\ loadingDetails' = TRUE
  /\ UNCHANGED <<appPc, appEvents, showOnlyFreeFood, searchQuery>>
  /\ UNCHANGED <<txtVars, domVars, catVars, clsVars, callVars, rawTextAgain, batVars,
                 dbVars, cronVars>>

\* closeModal()
CloseModal ==
  /\ selectedEvent # JsNull
  /\ selectedEvent' = JsNull
  /\ eventDetails' = JsNull
  /\ UNCHANGED <<appPc, appEvents, showOnlyFreeFood, searchQuery, loadingDetails,
                 pending>>
  /\ UNCHANGED <<txtVars, domVars, catVars, clsVars, callVars, rawTextAgain, batVars,
                 dbVars, cronVars>>

\* A request settles and its fetchEventDetails goes on after the await:
\* setEventDetails(...) in the try or the catch block, setLoadingDetails(false).
DetailsArrive ==
  /\ \E i \in 1..Len(pending) :
       /\ \E ok \in BOOLEAN : eventDetails' = DetailsOf(pending[i], ok)
       /\ pending' = SubSeq(pending, 1, i - 1) \o SubSeq(pending, i + 1, Len(pending))
  /\ loadingDetails' = FALSE
  /\ UNCHANGED <<appPc, appEvents, showOnlyFreeFood, searchQuery, selectedEvent>>
  /\ UNCHANGED <<txtVars, domVars, catVars, clsVars, callVars, rawTextAgain, batVars,
                 dbVars, cronVars>>

ModalNext == HandleEventClick \/ CloseModal \/ DetailsArrive

SpecModal == ModalInit /\ [][ModalNext]_vars

(***************************************************************************)
(* Claims about the entity decoder and the normalizer                      *)
(***************************************************************************)

\* C1: processDescriptionText is idempotent: normalizing an already normalized
\* description returns it unchanged.
C1_NormalizeIdempotent ==
  txtPc = "renormalized" => txtOut = txtPrev

\* The named entities with the character each stands for.
NamedEntities ==
  { <<EntAmp, S(<<"&">>)>>, <<EntLt, S(<<"<">>)>>, <<EntGt, S(<<">">>)>>,
    <<EntQuot, S(<<"QUOT">>)>>, <<EntApos, S(<<"'">>)>>,
    <<EntNdash, S(<<"NDASH">>)>>, <<EntMdash, S(<<"MDASH">>)>>,
    <<EntNbsp, S(<<" ">>)>> }

\* One left-to-right scan of s that replaces each entity occurrence of s itself and
\* never looks at a character it has produced.
RECURSIVE SingleScanFrom(_, _)
SingleScanFrom(s, i) ==
  IF i > Len(s) THEN <<>>
  ELSE
    LET named == { e \in NamedEntities : MatchAt(s, e[1], i) }
        nd == RunLen(s, 48..57, i + 2)
        dec == /\ MatchAt(s, S(<<"&","#">>), i) /\ nd > 0
               /\ i + 2 + nd <= Len(s) /\ s[i + 2 + nd] = Ord[";"]
        nh == RunLen(s, {c \in 48..102 : IsHexDigit(c)}, i + 3)
        hex == /\ MatchAt(s, S(<<"&","#">>), i) /\ i + 2 <= Len(s)
               /\ s[i + 2] \in {Ord["x"], Ord["X"]} /\ nh > 0
               /\ i + 3 + nh <= Len(s) /\ s[i + 3 + nh] = Ord[";"]
    IN IF named # {}
       THEN LET e == CHOOSE x \in named : TRUE
            IN e[2] \o SingleScanFrom(s, i + Len(e[1]))
       ELSE IF dec
       THEN FromCharCode(ParseDigits(SubSeq(s, i + 2, i + 1 + nd), 10))
              \o SingleScanFrom(s, i + 3 + nd)
       ELSE IF hex
       THEN FromCharCode(ParseDigits(SubSeq(s, i + 3, i + 2 + nh), 16))
              \o SingleScanFrom(s, i + 4 + nh)
       ELSE <<s[i]>> \o SingleScanFrom(s, i + 1)

SingleScanDecode(s) == SingleScanFrom(s, 1)

\* C2: decodeHtmlEntities decodes every entity occurrence of its input exactly once:
\* its result is that of a single left-to-right scan of the original input.
C2_DecodedExactlyOnce ==
  txtPc = "decoded" => txtOut = SingleScanDecode(txtIn)

(***************************************************************************)
(* Claims about extractNodeText and cleanEventDOM                          *)
(***************************************************************************)

\* The walked node holds exactly two elements of tag tg, each holding one text node
\* whose text is not empty.
TwoSiblings(tg) ==
  /\ Len(parsed.kids[card]) = 2
  /\ \A i \in 1..2 :
       LET e == parsed.kids[card][i]
       IN /\ attr[e].tag = tg
          /\ Len(parsed.kids[e]) = 1
          /\ attr[parsed.kids[e][1]].nodeType = TEXT_NODE
          /\ extractNodeText(attr, parsed, parsed.kids[e][1]) # <<>>

\* The text of the i-th of the two siblings.
SiblingText(i) == extractNodeText(attr, parsed, parsed.kids[parsed.kids[card][i]][1])

\* C3: two sibling paragraphs with texts A and B extract to "A\n\nB" and two sibling
\* spans to "A B", whatever the kind of their parent.
C3_SiblingSeparation ==
  domPc = "extracted" =>
    /\ TwoSiblings("p") => rawText = SiblingText(1) \o <<LF, LF>> \o SiblingText(2)
    /\ TwoSiblings("span") => rawText = SiblingText(1) \o <<SP>> \o SiblingText(2)

\* The walked node holds exactly: a text run, two line breaks, a text run.
DoubleBreak ==
  LET ks == parsed.kids[card]
  IN /\ Len(ks) = 4
     /\ attr[ks[1]].nodeType = TEXT_NODE
     /\ attr[ks[2]].tag = "br"
     /\ attr[ks[3]].tag = "br"
     /\ attr[ks[4]].nodeType = TEXT_NODE

\* A text run as it reads in a description.
RunText(n) == processDescriptionText(extractNodeText(attr, parsed, n))

\* C4: X<br><br>Y is described as "X\n\nY" under any parent: the two breaks yield one
\* blank line, which the parent's separator neither suppresses nor multiplies.
C4_DoubleBreak ==
  (domPc = "described" /\ DoubleBreak) =>
    description = RunText(parsed.kids[card][1]) \o <<LF, LF>>
                    \o RunText(parsed.kids[card][4])

\* A double break under a block parent has been described.
C4_Witness ==
  /\ domPc = "described"
  /\ DoubleBreak
  /\ attr[card].tag = "div"
  /\ attr[parsed.kids[card][1]].rawText = TextB
  /\ attr[parsed.kids[card][4]].rawText = TextA

\* An anchor whose aria-label contains "Copy link" in any letter case.
IsCopyLinkAnyCase(a) ==
  /\ IsElement(a)
  /\ a.tag = "a"
  /\ Includes(ToLowerCase(a.label), ToLowerCase(CopyLinkText))

\* C5: after cleanEventDOM(card) no copy-link anchor (label matched in any letter
\* case) and no node of its parent's subtree is reachable from the card.
C5_CopyLinkParentsRemoved ==
  domPc = "cleaned" =>
    \A a \in Subtree(parsed, card) \ {card} :
      IsCopyLinkAnyCase(attr[a]) =>
        \A m \in Subtree(parsed, parsed.parent[a]) \ {card} :
          m \notin Subtree(dom, card)

\* The part of tree d that is reachable from the card.
CardTree(d) == [n \in Subtree(d, card) |-> d.kids[n]]

Orders ==
  { o \in [1..5 -> 1..5] : \A i, j \in 1..5 : i # j => o[i] # o[j] }

\* C6 (as claimed): the five removal steps commute on every card.
C6_StepsCommute ==
  domPc = "cleaned" =>
    \A o \in Orders : CardTree(CleanInOrder(o, attr, parsed, card)) = CardTree(dom)

\* The nodes of the card that the selector of step k matches.
Matched(k) ==
  { n \in Subtree(parsed, card) \ {card} :
      CASE k = 1 -> IsTitle(attr[n])
        [] k = 2 -> IsBorder(attr[n])
        [] k = 3 -> IsCopyLinkAnchor(attr[n])
        [] k = 4 -> IsButton(attr[n])
        [] k = 5 -> IsImageWrapper(attr[n]) }

\* The roots of the subtrees step k takes out of the card when it runs alone.
RemovedRoots(k) ==
  CASE k \in {1, 2} ->
         IF Matched(k) = {} THEN {}
         ELSE {CHOOSE n \in Matched(k) : \A m \in Matched(k) : n <= m}
    [] k = 3 -> { parsed.parent[n] : n \in Matched(3) } \ {card}
    [] k \in {4, 5} -> Matched(k)

\* No node one step selects lies in a subtree another step removes.
TargetsDisjoint ==
  \A j, k \in 1..5 :
    j # k =>
      \A r \in RemovedRoots(j) : Matched(k) \cap Subtree(parsed, r) = {}

\* C6 (amended): the removal steps commute whenever their targets are disjoint
\* subtrees: every order leaves the tree cleanEventDOM leaves.
C6_DisjointStepsCommute ==
  (domPc = "cleaned" /\ TargetsDisjoint) =>
    \A o \in Orders : CardTree(CleanInOrder(o, attr, parsed, card)) = CardTree(dom)

\* A card with disjoint targets of three different steps has been cleaned.
C6_Witness ==
  /\ domPc = "cleaned"
  /\ TargetsDisjoint
  /\ Cardinality({ k \in 1..5 : Matched(k) # {} }) = 3
  /\ Subtree(dom, card) = {card}

(***************************************************************************)
(* Claims about extractAriaLabelsAsCategory                                *)
(***************************************************************************)

\* The cleaned labels of the attribute values that are not blank, in document order.
CleanedLabels ==
  LET idx == SelectSeq([i \in 1..Len(ariaLabels) |-> i],
                       LAMBDA i : Trim(ariaLabels[i]) # <<>>)
  IN [k \in 1..Len(idx) |-> cleanLabel(Trim(ariaLabels[idx[k]]))]

\* The labels that no earlier label equals ignoring letter case, in order.
FirstSeen(ls) ==
  LET idx == SelectSeq([i \in 1..Len(ls) |-> i],
                       LAMBDA i : \A j \in 1..(i - 1) :
                                    ToLowerCase(ls[j]) # ToLowerCase(ls[i]))
  IN [k \in 1..Len(idx) |-> ls[idx[k]]]

\* C7: the category is the cleaned non-empty labels in first-seen order joined by
\* " / ", each distinct ignoring letter case and in the casing of its first
\* occurrence; the labels of the example give "Lecture / Presentation / Workshop".
C7_CategoryDedupOrder ==
  catPc = "extracted" =>
    /\ category = Join(FirstSeen(CleanedLabels), SlashSep)
    /\ \A l \in SeqToSet(CleanedLabels) : l # <<>>
    /\ ariaLabels = <<LabelLecture, LabelLectureLower, LabelWorkshop>> =>
         category = S(<<"L","e","c","t","u","r","e"," ","/"," ",
                        "P","r","e","s","e","n","t","a","t","i","o","n"," ","/"," ",
                        "W","o","r","k","s","h","o","p">>)

\* The labels of the example have been extracted.
C7_Witness ==
  /\ catPc = "extracted"
  /\ ariaLabels = <<LabelLecture, LabelLectureLower, LabelWorkshop>>
  /\ category # <<>>

(***************************************************************************)
(* Claims about the housing-only and free-food classifiers                 *)
(***************************************************************************)

\* A character of a written word: an ASCII letter, digit or underscore, or an accented
\* Latin letter.
IsWordLetter(c) == IsWordChar(c) \/ (c \in 192..255 /\ c \notin {215, 247})

\* w stands at position i of s with no word letter on either side.
StandaloneAt(s, i, w) ==
  /\ MatchAt(ToLowerCase(s), w, i)
  /\ (i = 1 \/ ~IsWordLetter(s[i - 1]))
  /\ (i + Len(w) > Len(s) \/ ~IsWordLetter(s[i + Len(w)]))

\* 'RA' or 'RAs' occurs in s as a word of its own, in any letter case.
HasStandaloneRA(s) ==
  \E i \in 1..Len(s) :
    \E w \in {S(<<"r","a">>), S(<<"r","a","s">>)} : StandaloneAt(s, i, w)

\* s contains one of the literal marker phrases, ignoring letter case.
HasMarkerPhrase(s) ==
  \E k \in 1..Len(HOUSING_ONLY_MARKERS) :
    /\ HOUSING_ONLY_MARKERS[k] # MarkerRA
    /\ Includes(ToLowerCase(s), ToLowerCase(HOUSING_ONLY_MARKERS[k]))

HasHousingCategoryName(cat) ==
  \E name \in { S(<<"R","A"," ","F","l","o","o","r"," ","P","r","o","g","r","a","m">>),
                S(<<"R","e","s"," ","C","o","l","l","e","g","e"," ","C","u","p">>),
                S(<<"R","e","s","i","d","e","n","t","i","a","l"," ","C","o","l","l","e",
                  "g","e"," ","o","r"," ","C","o","m","m","u","n","i","t","y"," ","E",
                  "v","e","n","t">>) } :
    Includes(cat, name)

KeywordsIn(text) ==
  SelectSeq(freeFoodKeywords, LAMBDA k : Includes(ToLowerCase(text), k))

\* C10: checkFreeFood(text) is true exactly when getMatchedKeywords(text) is non-empty,
\* getMatchedKeywords(text) is the sub-list, in list order, of the fixed keywords that
\* occur in the lowercased text, and a text containing 'free pizza will be served' is
\* flagged with 'free pizza' among its matches.
C10_FreeFoodMatches ==
  scanResult = "ok" =>
    /\ details.hasFreeFood <=> (getMatchedKeywords(pageText) # <<>>)
    /\ getMatchedKeywords(pageText) = KeywordsIn(pageText)
    /\ nodeEnv = "development" => matches = KeywordsIn(pageText)
    /\ Includes(pageText, FreePizzaServed) =>
         /\ details.hasFreeFood
         /\ S(<<"f","r","e","e"," ","p","i","z","z","a">>) \in SeqToSet(getMatchedKeywords(pageText))

C10_Witness ==
  /\ scanResult = "ok"
  /\ nodeEnv = "development"
  /\ Includes(pageText, FreePizzaServed)
  /\ pageText # FreePizzaServed
  /\ details.hasFreeFood
  /\ S(<<"f","r","e","e"," ","p","i","z","z","a">>) \in SeqToSet(matches)

(***************************************************************************)
(* Claims about numeric references and malformed entities                  *)
(***************************************************************************)

\* The length of the well-formed decimal reference '&#N;' at position i of s, or 0.
DecimalRefLen(s, i) ==
  LET n == RunLen(s, 48..57, i + 2)
  IN IF /\ MatchAt(s, S(<<"&","#">>), i) /\ n > 0
        /\ i + 2 + n <= Len(s) /\ s[i + 2 + n] = Ord[";"]
     THEN n + 3 ELSE 0

\* The length of the well-formed hexadecimal reference '&#xH;' at position i of s, or 0.
HexRefLen(s, i) ==
  LET n == RunLen(s, {c \in 48..102 : IsHexDigit(c)}, i + 3)
  IN IF /\ MatchAt(s, S(<<"&","#">>), i) /\ i + 2 <= Len(s)
        /\ s[i + 2] \in {Ord["x"], Ord["X"]} /\ n > 0
        /\ i + 3 + n <= Len(s) /\ s[i + 3 + n] = Ord[";"]
     THEN n + 4 ELSE 0

\* The code point the reference of length n at position i of s names.
RefCodePoint(s, i, n) ==
  IF DecimalRefLen(s, i) > 0
  THEN ParseDigits(SubSeq(s, i + 2, i + n - 2), 10)
  ELSE ParseDigits(SubSeq(s, i + 3, i + n - 2), 16)

\* The character with code point n, as the code units of a string.
CharOfCodePoint(n) ==
  IF n < 65536 THEN <<n>>
  ELSE <<55296 + ((n - 65536) \div 1024), 56320 + ((n - 65536) % 1024)>>

\* s from position i on is well-formed numeric references and nothing else.
RECURSIVE OnlyReferencesFrom(_, _)
OnlyReferencesFrom(s, i) ==
  IF i > Len(s) THEN TRUE
  ELSE LET n == IF DecimalRefLen(s, i) > 0 THEN DecimalRefLen(s, i) ELSE HexRefLen(s, i)
       IN n > 0 /\ OnlyReferencesFrom(s, i + n)

\* The characters the references of s from position i on name, in order.
RECURSIVE ReferencedCharsFrom(_, _)
ReferencedCharsFrom(s, i) ==
  IF i > Len(s) THEN <<>>
  ELSE LET n == IF DecimalRefLen(s, i) > 0 THEN DecimalRefLen(s, i) ELSE HexRefLen(s, i)
       IN CharOfCodePoint(RefCodePoint(s, i, n)) \o ReferencedCharsFrom(s, i + n)

\* C12: every well-formed numeric reference, decimal or hexadecimal with hex digits in
\* either case, is decoded by decodeHtmlEntities and by processDescriptionText to the
\* character whose code point it names, for every code point including those above 65535.
C12_NumericReferences ==
  (txtPc \in {"decoded", "normalized"} /\ OnlyReferencesFrom(txtIn, 1)) =>
    txtOut = ReferencedCharsFrom(txtIn, 1)

\* An '&' at position i of s that starts neither a named entity nor a well-formed
\* numeric reference.
MalformedAt(s, i) ==
  /\ s[i] = Ord["&"]
  /\ \A e \in NamedEntities : ~MatchAt(s, e[1], i)
  /\ DecimalRefLen(s, i) = 0
  /\ HexRefLen(s, i) = 0

\* The malformed sequence that starts at position i of s: up to the next '&'.
RECURSIVE MalformedSequence(_, _)
MalformedSequence(s, i) ==
  <<s[i]>> \o (IF i + 1 > Len(s) \/ s[i + 1] = Ord["&"] THEN <<>>
               ELSE MalformedSequence(s, i + 1))

\* C13: every '&'-sequence of the input that is neither a named entity nor a well-formed
\* numeric reference stands unchanged in the result of decodeHtmlEntities, at the place
\* that follows the decoded text before it.
C13_MalformedVerbatim ==
  txtPc = "decoded" =>
    \A i \in 1..Len(txtIn) :
      MalformedAt(txtIn, i) =>
        MatchAt(txtOut, MalformedSequence(txtIn, i),
                Len(SingleScanDecode(SubSeq(txtIn, 1, i - 1))) + 1)

(***************************************************************************)
(* Claims about the named entities                                         *)
(***************************************************************************)

\* The eight named entities, as written, with the character of each.
EntityCharacters ==
  << <<S(<<"&","a","m","p",";">>), 38>>,
     <<S(<<"&","l","t",";">>), 60>>,
     <<S(<<"&","g","t",";">>), 62>>,
     <<S(<<"&","q","u","o","t",";">>), 34>>,
     <<S(<<"&","#","3","9",";">>), 39>>,
     <<S(<<"&","n","d","a","s","h",";">>), 8211>>,
     <<S(<<"&","m","d","a","s","h",";">>), 8212>>,
     <<S(<<"&","n","b","s","p",";">>), 32>> >>

\* s from position i on with every named entity replaced by its character.
RECURSIVE EntitiesReplacedFrom(_, _)
EntitiesReplacedFrom(s, i) ==
  IF i > Len(s) THEN <<>>
  ELSE LET hits == { k \in 1..Len(EntityCharacters) : MatchAt(s, EntityCharacters[k][1], i) }
       IN IF hits # {}
          THEN LET k == CHOOSE x \in hits : TRUE
               IN <<EntityCharacters[k][2]>>
                    \o EntitiesReplacedFrom(s, i + Len(EntityCharacters[k][1]))
          ELSE <<s[i]>> \o EntitiesReplacedFrom(s, i + 1)

IsRemovalTarget(a) ==
  /\ a.nodeType = 1
  /\ \/ a.tag = "button"
     \/ a.tag = "a" /\ "btn" \in a.classes
     \/ a.tag = "img"
     \/ "text-center" \in a.classes

\* C17: after cleanEventDOM(card) no button element, no anchor with class btn, no img
\* element and no element with class text-center is a descendant of card, for any card
\* tree, with nested targets or with none.
C17_TargetsGone ==
  domPc # "parsed" =>
    \A m \in SeqToSet(Descendants(dom, card)) : ~IsRemovalTarget(attr[m])

\* A card with a target nested inside another target, cleaned, with content left over.
C17_Witness ==
  /\ domPc = "cleaned"
  /\ \E m \in SeqToSet(Descendants(parsed, card)) :
       /\ IsRemovalTarget(attr[m])
       /\ parsed.parent[m] # card
       /\ IsRemovalTarget(attr[parsed.parent[m]])
  /\ Descendants(dom, card) # <<>>

\* A step taken where the only calls are calls of extractNodeText leaves every node, its
\* parent and its children as they were.
WalkKeepsTree ==
  (domPc = "cleaned" \/ domPc = "extracted") => (dom' = dom /\ attr' = attr)

C11_DateFallback ==
  (callPc = "returned" /\ callFn = "parseEngageSingleDate" /\ callArg.t = "string") =>
    LET cleaned == parseDateInfoFromHtml(callArg)
        ret == callRet.value
    IN /\ ~callRet.raised
       /\ ret.date = NullDate => ret.display = cleaned
       /\ ret.date # NullDate =>
            /\ cleaned # <<>>
            /\ ret.date \in Instants
            /\ ret.display = formatEventDate(ret.date)
       /\ (cleaned = <<>> \/ NewDate(cleaned) \cap Instants = {}) => ret.date = NullDate
       /\ callArg.v = S(<<"T","B","D">>) =>
            ret = [date |-> NullDate, display |-> S(<<"T","B","D">>)]

\* Two paragraphs, a date the host does not parse and a dash: the display is the text
\* joined and cleaned of the trailing dash.
C11_Witness ==
  /\ callPc = "returned"
  /\ callFn = "parseEngageSingleDate"
  /\ callArg = JsString(POpen \o S(<<"M","o","n",","," ","J","a","n"," ","5"," ","2","0","2","6">>) \o PClose
                          \o POpen \o S(<<"&","n","d","a","s","h",";">>) \o PClose)
  /\ callRet = Returned([date |-> NullDate, display |-> S(<<"M","o","n",","," ","J","a","n"," ","5"," ","2","0","2","6">>)])

\* The empty result of an extractor: the empty string, or a null date with an empty
\* display.
IsEmptyResult(fn, value) ==
  IF fn = "parseEngageSingleDate"
  THEN value = [date |-> NullDate, display |-> <<>>]
  ELSE value = <<>>

\* C14: decodeHtmlEntities, extractAriaLabelsAsCategory, parseEngageSingleDate and
\* processDescriptionText, given null, undefined or a number, return an empty result and
\* do not raise.
C14_NonStringsGiveEmpty ==
  (callPc = "returned" /\ callArg.t # "string") =>
    (~callRet.raised /\ IsEmptyResult(callFn, callRet.value))

\* C15: extractAriaLabelsAsCategory(null), decodeHtmlEntities(42) and
\* processDescriptionText('') each return the empty string without raising.
C15_InputSafety ==
  callPc = "returned" =>
    /\ (callFn = "extractAriaLabelsAsCategory" /\ callArg = JsNull)
         => callRet = [raised |-> FALSE, value |-> <<>>]
    /\ (callFn = "decodeHtmlEntities" /\ callArg = JsNumber(42))
         => callRet = [raised |-> FALSE, value |-> <<>>]
    /\ (callFn = "processDescriptionText" /\ callArg = JsString(<<>>))
         => callRet = [raised |-> FALSE, value |-> <<>>]

C15_Witness ==
  /\ callPc = "returned"
  /\ callFn = "decodeHtmlEntities"
  /\ callArg = JsNumber(42)
  /\ callRet = [raised |-> FALSE, value |-> <<>>]

(***************************************************************************)
(* Claims about scanEventsInBatches                                        *)
(***************************************************************************)

\* What a scan that ended with the given result must have resolved to.
ResolvedAsStated(k) ==
  CASE fetches[k].result = "error" ->
         fetches[k].details =
           [description |-> S(<<"E","r","r","o","r"," ","l","o","a","d","i","n","g"," ","d","e","s","c","r","i","p","t","i","o","n">>),
            hasFreeFood |-> FALSE, isHousingOnly |-> FALSE]
    [] fetches[k].result = "noCard" ->
         fetches[k].details =
           [description |-> S(<<"N","o"," ","d","e","s","c","r","i","p","t","i","o","n"," ","a","v","a","i","l","a","b","l","e">>),
            hasFreeFood |-> FALSE, isHousingOnly |-> FALSE]
    [] fetches[k].result = "ok" ->
         fetches[k].details.description = PageOf(events[k].id)

\* C19: scanEventDetails never rejects: a failed fetch, a non-OK status or a raising
\* extraction resolves to description 'Error loading description' with both flags false,
\* a missing card to 'No description available' with both flags false; so a failure for
\* one event never aborts its batch, and every event of the list is returned with its
\* own result.
C19_FailuresKeepBatch ==
  /\ \A k \in 1..Len(events) :
       fetches[k].st \in {"scanned", "enriched"} => ResolvedAsStated(k)
  /\ batPc = "done" =>
       /\ Len(scannedEvents) = Len(events)
       /\ \A k \in 1..Len(events) :
            /\ scannedEvents[k].id = events[k].id
            /\ scannedEvents[k].description = fetches[k].details.description
            /\ scannedEvents[k].hasFreeFood = fetches[k].details.hasFreeFood
            /\ fetches[k].result = "ok" =>
                 scannedEvents[k].description = PageOf(events[k].id)

\* A list returned in full where one scan failed, one found no card and one succeeded
\* in the same batch.
C19_Witness ==
  /\ batPc = "done"
  /\ Len(events) >= 3
  /\ fetches[1].result = "error"
  /\ fetches[2].result = "noCard"
  /\ fetches[3].result = "ok"
  /\ scannedEvents[3].hasFreeFood
  /\ ~scannedEvents[1].hasFreeFood

\* The number of the batch the event at position k belongs to.
BatchOf(k) == (k - 1) \div 5

\* A step that starts the fetch of an event of a batch other than the first is taken
\* when 200 ms have passed since the timer was set.
StartsAfterDelay ==
  \A k \in 1..Len(events) :
    (fetches[k].st = "notStarted" /\ fetches'[k].st = "inFlight" /\ BatchOf(k) > 0)
      => elapsed >= 200

\* At most 5 fetches are in flight, and no fetch of a batch has started while a scan of
\* an earlier batch has not settled.
BatchesInTurn ==
  /\ Cardinality({k \in 1..Len(events) : fetches[k].st = "inFlight"}) <= 5
  /\ \A i, j \in 1..Len(events) :
       (BatchOf(i) < BatchOf(j) /\ fetches[j].st # "notStarted")
         => fetches[i].st \in {"scanned", "enriched"}

\* C20: during scanEventsInBatches at most 5 event-detail fetches are in flight at any
\* moment, and no fetch of batch k+1 starts before every fetch of batch k has settled
\* and the 200 ms delay between batches has elapsed.
C20_BatchesOfFive ==
  /\ []BatchesInTurn
  /\ [][StartsAfterDelay]_vars

\* The sixth event's fetch in flight after the first five settled and the delay passed.
C20_Witness ==
  /\ Len(events) > 5
  /\ fetches[6].st = "inFlight"
  /\ \A k \in 1..5 : fetches[k].st = "enriched"
  /\ elapsed >= 200

(***************************************************************************)
(* Claims about line breaks in descriptions                                *)
(***************************************************************************)

\* The walked node holds exactly: a text run, one line break, a text run.
SingleBreak ==
  LET ks == parsed.kids[card]
  IN /\ Len(ks) = 3
     /\ attr[ks[1]].nodeType = TEXT_NODE
     /\ attr[ks[2]].tag = "br"
     /\ attr[ks[3]].nodeType = TEXT_NODE

\* C25: X<br>Y is described as "X\nY" under any parent, block or inline: one line
\* break yields exactly one newline between the two text runs.
C25_SingleBreak ==
  (domPc = "described" /\ SingleBreak) =>
    description = RunText(parsed.kids[card][1]) \o <<LF>>
                    \o RunText(parsed.kids[card][3])

\* The markup walked holds no line-break element and no block element.
NoBreakNoBlock ==
  \A n \in Subtree(parsed, card) :
    IsElement(attr[n]) => attr[n].tag \notin BLOCK_TAGS \cup {"br"}

\* C26: a newline of the description comes from a line-break element or from a block
\* element's join: markup with neither is described without any newline, whatever
\* whitespace its text nodes hold.
C26_NewlinesAreSemantic ==
  (domPc = "described" /\ NoBreakNoBlock) =>
    \A i \in 1..Len(description) : description[i] # LF

\* A space or a tab.
IsBlank(c) == c = SP \/ c = TAB

\* s has no whitespace at either end, no two blanks in a row, no blank next to a
\* newline and no three newlines in a row.
IsTidy(s) ==
  /\ s # <<>> => (s[1] \notin JsWhiteSpace /\ s[Len(s)] \notin JsWhiteSpace)
  /\ \A i \in 1..(Len(s) - 1) :
       /\ ~(IsBlank(s[i]) /\ IsBlank(s[i + 1]))
       /\ ~(IsBlank(s[i]) /\ s[i + 1] = LF)
       /\ ~(s[i] = LF /\ IsBlank(s[i + 1]))
  /\ \A i \in 1..(Len(s) - 2) :
       ~(s[i] = LF /\ s[i + 1] = LF /\ s[i + 2] = LF)

\* C27: the result of processDescriptionText has no whitespace at its ends, no run of
\* two or more spaces or tabs, no space or tab next to a newline and no run of three
\* or more newlines, also when the input holds entities that decode to whitespace.
C27_ResultIsTidy ==
  txtPc = "normalized" => IsTidy(txtOut)

(***************************************************************************)
(* Claims about the scanned list and the rows written from it              *)
(***************************************************************************)

\* C30: scanEventsInBatches returns one enriched entry per input event, in input
\* order, each with the event's id and scanned = true, for every length of the list;
\* so the row upserted for an event has its position in the list as order_index.
C30_OnePerEventInOrder ==
  batPc = "done" =>
    /\ Len(scannedEvents) = Len(events)
    /\ \A k \in 1..Len(events) :
         /\ scannedEvents[k].id = events[k].id
         /\ scannedEvents[k].scanned
         /\ DbEventsOf(scannedEvents, today)[k].id = events[k].id
         /\ DbEventsOf(scannedEvents, today)[k].order_index = k - 1

\* A list of six events, one more than a batch, has been scanned to its end.
C30_Witness ==
  /\ batPc = "done"
  /\ Len(events) = 6
  /\ Len(scannedEvents) = 6

(***************************************************************************)
(* Claims about the cron handler and the events table                      *)
(***************************************************************************)

\* The ids of the events this run's list fetch returned.
ListedIds == SeqToSet(IdsOf(runEvents))

\* The run has answered 200.
Succeeded == cronPc = "returned" /\ responses = <<200>>

\* C21: after a successful cron run the active rows are exactly the events the run's
\* list fetch returned: a returned event is active (also one that was stale), and a
\* row that was active and is not returned is stale; for any list, the empty one too.
C21_ActiveAreListed ==
  Succeeded =>
    \A id \in EventIds :
      /\ id \in ListedIds => db[id].status = "active"
      /\ (id \notin ListedIds /\ dbAtStart[id].status = "active") =>
           db[id].status = "stale"
      /\ db[id].status = "active" => id \in ListedIds

\* A run has succeeded that made a stale row active and an active row stale.
C21_Witness ==
  /\ Succeeded
  /\ dbAtStart[1].status = "stale"
  /\ db[1].status = "active"
  /\ dbAtStart[2].status = "active"
  /\ db[2].status = "stale"

\* A step deletes a row only if it is stale and was last written more than
\* STALE_THRESHOLD_DAYS days ago; a row gets today's date when it turns stale and
\* keeps its date while it stays stale; a stale row that is upserted turns active.
DeletesOnlyOldStale ==
  \A id \in EventIds :
    /\ (db[id].status # "absent" /\ db'[id].status = "absent") =>
         /\ db[id].status = "stale"
         /\ today - db[id].updated_at > STALE_THRESHOLD_DAYS
    /\ (db[id].status = "active" /\ db'[id].status = "stale") =>
         db'[id].updated_at = today
    /\ (db[id].status = "stale" /\ db'[id].status = "stale") =>
         db'[id].updated_at = db[id].updated_at
    /\ (db[id].status = "stale" /\ id \in SeqToSet(IdsOf(runScanned))
          /\ cronPc = "upserting" /\ cronPc' = "marking") =>
         db'[id].status = "active"

\* C22: a row is deleted only when it is stale and has been stale, without
\* interruption, for more than 30 days; an active row is never deleted, and an event
\* that reappears earlier is active again and stays.
C22_DeletionOnlyAfterThreshold == [][DeletesOnlyOldStale]_vars

\* A run has deleted a row it found stale.
C22_Witness ==
  /\ cronPc = "returned"
  /\ dbAtStart[1].status = "stale"
  /\ db[1].status = "absent"

\* C23: an invocation whose Authorization header is not exactly "Bearer " followed by
\* CRON_SECRET is answered 401 and starts no list fetch, no scan and no database write.
C23_UnauthorizedDoesNothing ==
  authorization # JsString(Bearer \o CRON_SECRET) =>
    /\ cronPc \in {"waiting", "invoked", "returned"}
    /\ steps = <<>>
    /\ db = dbAtStart
    /\ cronPc = "returned" => responses = <<401>>

\* A request whose header is the right one followed by a space has been refused
\* while the table holds a row.
C23_Witness ==
  /\ cronPc = "returned"
  /\ authorization = JsString(Bearer \o CRON_SECRET \o <<SP>>)
  /\ responses = <<401>>
  /\ db[1].status = "active"

\* s is an initial part of u.
IsPrefix(s, u) ==
  /\ Len(s) <= Len(u)
  /\ \A i \in 1..Len(s) : s[i] = u[i]

\* The steps started so far are list fetch, scan, upsert, stale-marking and deletion
\* in that order, each started after the one before was done; a failed step is the
\* last one and is answered 500; 200 follows five steps done, 401 none; and a handler
\* that has returned has sent one response, one that has not has sent none.
StepsInOrder ==
  /\ IsPrefix([k \in 1..Len(steps) |-> steps[k].step], RunSteps)
  /\ \A k \in 1..(Len(steps) - 1) : steps[k].st = "done"
  /\ cronPc = "returned" => Len(responses) = 1 /\ responses[1] \in {401, 200, 500}
  /\ cronPc # "returned" => responses = <<>>
  /\ responses = <<200>> =>
       Len(steps) = Len(RunSteps) /\ steps[Len(steps)].st = "done"
  /\ responses = <<401>> => steps = <<>>
  /\ responses = <<500>> => steps # <<>> /\ steps[Len(steps)].st = "failed"
  /\ (steps # <<>> /\ steps[Len(steps)].st = "failed") => responses = <<500>>

\* C28: an authorized run takes its steps in the order list fetch, scan, upsert,
\* stale-marking, deletion, each after the one before succeeded; after a failure no
\* later step runs and the answer is 500; every invocation sends exactly one response.
C28_OrderedStepsOneResponse ==
  /\ []StepsInOrder
  /\ (cronPc = "invoked") ~> (cronPc = "returned")

\* The stale-marking of a run failed after its upsert.
C28_Witness ==
  /\ cronPc = "returned"
  /\ responses = <<500>>
  /\ Len(steps) = 4
  /\ steps[4].st = "failed"

(***************************************************************************)
(* Claims about the page                                                   *)
(***************************************************************************)

\* q occurs in s when letter case is ignored.
OccursIgnoringCase(q, s) ==
  \E i \in 0..(Len(s) - Len(q)) :
    \A k \in 1..Len(q) : LowerChar(s[i + k]) = LowerChar(q[k])

\* The ids of the rows that are to be shown.
IdsToShow ==
  { id \in DOMAIN db :
      /\ db[id].status = "active"
      /\ ~showOnlyFreeFood \/ db[id].has_free_food
      /\ \/ OccursIgnoringCase(searchQuery, db[id].title)
         \/ OccursIgnoringCase(searchQuery, db[id].location) }

\* C24: the page shows exactly the loaded active events that pass the free-food filter
\* (off, or hasFreeFood true) and whose title or location holds the search query,
\* letter case ignored; no stale event is shown.
C24_ShownAreActiveMatches ==
  appPc = "ready" =>
    /\ SeqToSet(IdsOf(EventsGrid)) = IdsToShow
    /\ Len(EventsGrid) = Cardinality(IdsToShow)
    /\ \A k \in 1..Len(EventsGrid) : EventsGrid[k].status = "active"

\* With the filter on and "jam" searched, the page shows an event and leaves out a
\* stale row that has free food and matches the search.
C24_Witness ==
  /\ appPc = "ready"
  /\ showOnlyFreeFood
  /\ searchQuery = S(<<"j","a","m">>)
  /\ Len(EventsGrid) > 0
  /\ \E id \in DOMAIN db :
       /\ db[id].status = "stale"
       /\ db[id].has_free_food
       /\ OccursIgnoringCase(searchQuery, db[id].location)

\* C29: whenever eventDetails is not null an event is selected and the details are
\* those fetched for it: a response for an event selected earlier, or one that
\* arrives after the modal was closed, is never shown and never stays in eventDetails.
C29_DetailsOfSelected ==
  eventDetails # JsNull =>
    /\ selectedEvent # JsNull
    /\ eventDetails.v[1] = selectedEvent.v[1]

====
